---- MODULE Spec2Model ----
(***************************************************************************)
(* A model of the verkle tree of go-verkle: the stateless tree of          *)
(* stateless.go (StatelessNode: resolve on demand, copy-on-write           *)
(* snapshots, batched Commit) and the stateful tree of tree.go             *)
(* (InternalNode, leafNode, hashedNode, accountLeaf, empty).               *)
(*                                                                         *)
(* A Go map is a function whose DOMAIN is the set of keys present; a Go    *)
(* pointer structure is a nested record, and a method that mutates its     *)
(* receiver is an operator that returns the receiver after the call.       *)
(***************************************************************************)
EXTENDS Integers, Sequences, FiniteSets, TLC

VARIABLES mode, root, ret, steps, agreed, log, base

vars == <<mode, root, ret, steps, agreed, log, base>>

(***************************************************************************)
(* Bounds of the model.                                                    *)
(***************************************************************************)
\* the number of calls made on one tree
MaxOps == 3

(***************************************************************************)
(* Byte strings. A nil slice is NilBytes; <<>> is an empty non-nil slice.  *)
(***************************************************************************)
NilBytes == <<-1>>

BLen(b) == IF b = NilBytes THEN 0 ELSE Len(b)

\* bytes.Equal: a nil slice equals an empty one
BytesEqual(a, b) == IF BLen(a) = 0 \/ BLen(b) = 0 THEN BLen(a) = BLen(b) ELSE a = b

\* var zero [32]byte
Zero32 == [i \in 1..32 |-> 0]

(***************************************************************************)
(* Go maps.                                                                *)
(***************************************************************************)
EmptyMap == [x \in {} |-> 0]

MapSet(m, k, v) == [x \in (DOMAIN m) \cup {k} |-> IF x = k THEN v ELSE m[x]]

MapDel(m, k) == [x \in (DOMAIN m) \ {k} |-> m[x]]

MapGet(m, k, dflt) == IF k \in DOMAIN m THEN m[k] ELSE dflt

(***************************************************************************)
(* The curve library: the scalar field Fr and the group of points, here    *)
(* the integers modulo the prime FrModulus (the group written additively,  *)
(* a scalar acting by multiplication), with a non-linear map toFr from     *)
(* points to scalars that sends the identity to 0.                         *)
(***************************************************************************)
FrModulus == 7919

Identity == 0

\* a nil *Point
NoPoint == -1

PointAdd(a, b) == (a + b) % FrModulus

ScalarMul(p, s) == (p * s) % FrModulus

FrSub(a, b) == ((a - b) + FrModulus) % FrModulus

toFr(p) == ((((p * p) % FrModulus) * p) + 7 * p) % FrModulus

\* cfg.conf.SRSPrecompPoints.SRS[i]
SRS(i) == 1 + ((i * 101 + 17) % (FrModulus - 1))

\* Point.Bytes() and its inverse
PointBytes(p) == <<p>>

PointFromBytes(b) == b[1]

RECURSIVE FrFromLE(_, _, _)
\* the little-endian integer of bytes b[from..to], reduced into Fr
FrFromLE(b, from, to) ==
  IF from > to \/ from > BLen(b) THEN 0
  ELSE (b[from] + 256 * FrFromLE(b, from + 1, to)) % FrModulus

RECURSIVE Pow2(_)
Pow2(n) == IF n = 0 THEN 1 ELSE (2 * Pow2(n - 1)) % FrModulus

\* the leaf marker 2^128
LeafMarker == Pow2(128)

\* leafToComms: the two scalars of a value; (0, 0) for an absent value
leafToComms(value) ==
  IF BLen(value) = 0 THEN <<0, 0>>
  ELSE << (FrFromLE(value, 1, 16) + LeafMarker) % FrModulus, FrFromLE(value, 17, 32) >>

StemFromBytes(stem) == FrFromLE(stem, 1, Len(stem))

RECURSIVE SumOver(_, _)
\* the sum in the group of f[i] over i in S
SumOver(f, S) ==
  IF S = {} THEN Identity
  ELSE LET i == CHOOSE x \in S : TRUE IN PointAdd(f[i], SumOver(f, S \ {i}))

\* Config.CommitToPoly: poly is the map of the non-zero scalars
CommitToPoly(poly) ==
  SumOver([i \in DOMAIN poly |-> ScalarMul(SRS(i), poly[i])], DOMAIN poly)

(***************************************************************************)
(* Keys. A key is a stem followed by one suffix byte (32 = 31 + 1 bytes in *)
(* the program; the model's keys are shorter, and key[:31] and key[31] are *)
(* taken from the key's own length).                                       *)
(***************************************************************************)
StemOf(key) == SubSeq(key, 1, Len(key) - 1)

SuffixOf(key) == key[Len(key)]

\* the child index of a key or stem at a depth counted in bytes
offset2key(key, depth) == key[depth + 1]

equalPaths(a, b) == a = b

(***************************************************************************)
(* The node variants of the stateless family.                              *)
(***************************************************************************)
\* Empty{}
Empty == [kind |-> "Empty"]

\* a nil VerkleNode stored under a key of a children map
GoNil == [kind |-> "nil"]

\* &HashedNode{commitment: bytes}
HashedNode(bytes) == [kind |-> "HashedNode", commitment |-> bytes]

\* the sub-commitment of the value slots first..first+127
SubCommitment(values, first) ==
  LET S == {s \in DOMAIN values : first <= s /\ s < first + 128}
  IN SumOver([s \in S |->
               PointAdd(ScalarMul(SRS(2 * (s % 128)), leafToComms(values[s])[1]),
                        ScalarMul(SRS(2 * (s % 128) + 1), leafToComms(values[s])[2]))], S)

\* the commitment of a leaf: 1 at slot 0, the stem at 1, C1 at 2, C2 at 3
LeafCommitment(stem, c1, c2) ==
  PointAdd(PointAdd(ScalarMul(SRS(0), 1), ScalarMul(SRS(1), StemFromBytes(stem))),
           PointAdd(ScalarMul(SRS(2), toFr(c1)), ScalarMul(SRS(3), toFr(c2))))

\* NewLeafNode(stem, values), setDepth and Commit; values is the array of
\* the 256 slots, given by its entries that are not nil
NewLeafNode(stem, values, depth) ==
  LET vals == [i \in {j \in DOMAIN values : values[j] # NilBytes} |-> values[i]]
      c1 == SubCommitment(vals, 0)
      c2 == SubCommitment(vals, 128)
  IN [kind |-> "LeafNode", stem |-> stem, values |-> vals, depth |-> depth,
      c1 |-> c1, c2 |-> c2, commitment |-> LeafCommitment(stem, c1, c2)]

\* LeafNode.updateMultipleLeaves: the slots whose incoming value is not
\* empty and differs from the stored one are written
LeafUpdateMultipleLeaves(leaf, values) ==
  LET changed == {i \in DOMAIN values :
                    BLen(values[i]) # 0 /\ ~BytesEqual(values[i], MapGet(leaf.values, i, NilBytes))}
      merged == [i \in (DOMAIN leaf.values) \cup changed |->
                   IF i \in changed THEN values[i] ELSE leaf.values[i]]
  IN IF changed = {} THEN leaf
     ELSE NewLeafNode(leaf.stem, merged, leaf.depth)

\* a StatelessNode; isInternal is children # nil, isLeaf is values # nil
StatelessNode(children, isInternal, unresolved, values, isLeaf, stem, depth, commitment, cow, c1, c2) ==
  [kind |-> "StatelessNode", children |-> children, isInternal |-> isInternal,
   unresolved |-> unresolved, values |-> values, isLeaf |-> isLeaf, stem |-> stem,
   depth |-> depth, count |-> 0, cow |-> cow, commitment |-> commitment,
   c1 |-> c1, c2 |-> c2]

\* Generator(): the identity of the group
Generator == Identity

NewStateless ==
  StatelessNode(EmptyMap, TRUE, EmptyMap, EmptyMap, FALSE, <<>>, 0, Generator, EmptyMap,
                NoPoint, NoPoint)

NewStatelessWithCommitment(point) ==
  StatelessNode(EmptyMap, TRUE, EmptyMap, EmptyMap, FALSE, <<>>, 0, point, EmptyMap,
                NoPoint, NoPoint)

\* VerkleNode.Commitment()
Commitment(node) ==
  CASE node.kind = "Empty" -> Identity
    [] node.kind = "HashedNode" -> PointFromBytes(node.commitment)
    [] OTHER -> node.commitment

ChildIsNil(n, i) == i \notin DOMAIN n.children \/ n.children[i].kind = "nil"

SetChildAt(n, i, child) == [n EXCEPT !.children = MapSet(@, i, child)]

(***************************************************************************)
(* Serialized nodes and ParseStatelessNode.                                *)
(***************************************************************************)
SerializedInternal(comms) == [type |-> "internal", comms |-> comms, stem |-> <<>>, values |-> EmptyMap]

SerializedLeaf(stem, values) == [type |-> "leaf", comms |-> EmptyMap, stem |-> stem, values |-> values]

\* an internal node comes back with every child unresolved, a leaf as a LeafNode
ParseStatelessNode(serialized, depth, comm) ==
  IF serialized.type = "internal"
  THEN [NewStatelessWithCommitment(PointFromBytes(comm)) EXCEPT
          !.unresolved = serialized.comms, !.depth = depth]
  ELSE [NewLeafNode(serialized.stem, serialized.values, depth) EXCEPT
          !.commitment = PointFromBytes(comm)]

(***************************************************************************)
(* The resolver: NodeResolverFn. The backing store db maps the bytes of a  *)
(* commitment to the serialized node; the resolver fails when it is not    *)
(* available (up = FALSE) or the commitment is unknown.                    *)
(***************************************************************************)
Resolver(db, up) == [db |-> db, up |-> up]

Resolve(resolver, comm) ==
  IF resolver.up /\ comm \in DOMAIN resolver.db
  THEN [err |-> "ok", serialized |-> resolver.db[comm]]
  ELSE [err |-> "resolver", serialized |-> SerializedInternal(EmptyMap)]

(***************************************************************************)
(* The leaf updates of a StatelessNode that acts as a leaf.                *)
(***************************************************************************)
\* getOldCn: the sub-commitment of the slot and its scalar before the update
getOldCn(n, index) ==
  LET c == IF index < 128 THEN n.c1 ELSE n.c2
  IN <<c, toFr(c)>>

\* an updateC that puts the change of either sub-commitment at slot 2
updateCAtSlotTwo(n, index, c, oldc) ==
  [n EXCEPT !.commitment = PointAdd(@, ScalarMul(SRS(2), FrSub(toFr(c), oldc)))]

\* updateC: the leaf's commitment takes the change of one sub-commitment
updateC(n, index, c, oldc) ==
  [n EXCEPT !.commitment =
     PointAdd(@, ScalarMul(SRS(2 + (index \div 128)), FrSub(toFr(c), oldc)))]

\* updateCn: the sub-commitment c after value replaces n.values[index]
updateCn(n, index, value, c) ==
  LET oldVal == leafToComms(MapGet(n.values, index, NilBytes))
      newVal == leafToComms(value)
      c0 == PointAdd(c, ScalarMul(SRS(2 * (index % 128)), FrSub(newVal[1], oldVal[1])))
  IN PointAdd(c0, ScalarMul(SRS(2 * (index % 128) + 1), FrSub(newVal[2], oldVal[2])))

RECURSIVE updateLeavesFrom(_, _, _)
\* the loop of updateMultipleLeaves over the slots in todo, in ascending order
updateLeavesFrom(n, values, todo) ==
  IF todo = {} THEN n
  ELSE LET i == CHOOSE x \in todo : \A y \in todo : x <= y
           v == values[i]
       IN IF BLen(v) # 0 /\ ~BytesEqual(v, MapGet(n.values, i, NilBytes))
          THEN LET n1 == IF i < 128
                         THEN [n EXCEPT !.c1 = updateCn(n, i, v, n.c1)]
                         ELSE [n EXCEPT !.c2 = updateCn(n, i, v, n.c2)]
               IN updateLeavesFrom([n1 EXCEPT !.values = MapSet(@, i, v)], values, todo \ {i})
          ELSE updateLeavesFrom(n, values, todo \ {i})

\* an update that takes the change of the sub-commitments into the leaf's
\* commitment before the loop over the values has run
updateMultipleLeavesTopFirst(n, values) ==
  LET n1 == updateLeavesFrom(n, values, DOMAIN values)
  IN [node |-> [n1 EXCEPT !.commitment = n.commitment], err |-> "ok"]

\* StatelessNode.updateMultipleLeaves; a nil c1 or c2 that has to change is
\* a nil dereference
updateMultipleLeaves(n, values) ==
  LET changed == {i \in DOMAIN values :
                    BLen(values[i]) # 0 /\ ~BytesEqual(values[i], MapGet(n.values, i, NilBytes))}
      has1 == \E i \in changed : i < 128
      has2 == \E i \in changed : i >= 128
      old1 == getOldCn(n, 0)[2]
      old2 == getOldCn(n, 128)[2]
      n1 == updateLeavesFrom(n, values, DOMAIN values)
      n2 == IF has1 THEN updateC(n1, 0, n1.c1, old1) ELSE n1
      n3 == IF has2 THEN updateC(n2, 128, n2.c2, old2) ELSE n2
  IN IF (has1 /\ n.c1 = NoPoint) \/ (has2 /\ n.c2 = NoPoint)
     THEN [node |-> n, err |-> "panic"]
     ELSE [node |-> n3, err |-> "ok"]

(***************************************************************************)
(* Copy-on-write and insertion.                                            *)
(***************************************************************************)
\* cowChild: the first touch of a child saves a copy of its commitment
cowChild(n, index) ==
  IF ~n.isInternal THEN n
  ELSE IF index \in DOMAIN n.cow THEN n
  ELSE [n EXCEPT !.cow = MapSet(@, index, Commitment(n.children[index]))]

newLeafChildFromMultipleValues(n, stem, values) == NewLeafNode(stem, values, n.depth + 1)

\* newbranch without the cow entry set by hand: the commitment of the leaf
\* moved is never counted when the insert goes to another slot
newbranchWithoutCow(child, nextexisting) ==
  StatelessNode(MapSet(EmptyMap, nextexisting, [child EXCEPT !.depth = @ + 1]),
                TRUE, EmptyMap, EmptyMap, FALSE, <<>>, child.depth, Generator,
                EmptyMap, NoPoint, NoPoint)

\* an intermediate node that keeps the leaf at slot 0, whatever its next byte
newbranchAtZero(child, nextexisting) ==
  StatelessNode(MapSet(EmptyMap, 0, [child EXCEPT !.depth = @ + 1]),
                TRUE, EmptyMap, EmptyMap, FALSE, <<>>, child.depth, Generator,
                MapSet(EmptyMap, 0, Generator), NoPoint, NoPoint)

\* the intermediate node InsertAtStem puts in the place of a leaf of another
\* stem: the leaf, one level down, is its only child, and its cow entry for
\* the leaf is set by hand to the identity
newbranch(child, nextexisting) ==
  StatelessNode(MapSet(EmptyMap, nextexisting, [child EXCEPT !.depth = @ + 1]),
                TRUE, EmptyMap, EmptyMap, FALSE, <<>>, child.depth, Generator,
                MapSet(EmptyMap, nextexisting, Generator), NoPoint, NoPoint)

RECURSIVE InsertAtStem(_, _, _, _)
\* StatelessNode.InsertAtStem: the node after the call and the error
InsertAtStem(n, stem, values, resolver) ==
  IF n.depth >= Len(stem) THEN [node |-> n, err |-> "panic"]
  ELSE
  LET nChild == offset2key(stem, n.depth) IN
  IF n.isLeaf THEN updateMultipleLeaves(n, values)
  ELSE IF ChildIsNil(n, nChild) /\ BLen(MapGet(n.unresolved, nChild, NilBytes)) = 0
  THEN LET n1 == cowChild(SetChildAt(n, nChild, Empty), nChild)
       IN [node |-> SetChildAt(n1, nChild, newLeafChildFromMultipleValues(n1, stem, values)),
           err |-> "ok"]
  ELSE
  LET n1 == IF ChildIsNil(n, nChild)
            THEN SetChildAt(n, nChild, HashedNode(n.unresolved[nChild]))
            ELSE n
      isHash == n1.children[nChild].kind = "HashedNode"
      comm == n1.children[nChild].commitment
      got == Resolve(resolver, comm)
  IN IF isHash /\ got.err # "ok" THEN [node |-> n1, err |-> "resolver"]
     ELSE
     LET n2 == IF isHash
               THEN SetChildAt(n1, nChild, ParseStatelessNode(got.serialized, n1.depth + 1, comm))
               ELSE n1
         n3 == cowChild(n2, nChild)
         child == n3.children[nChild]
     IN CASE child.kind = "StatelessNode" ->
               LET r == InsertAtStem(child, stem, values, resolver)
               IN [node |-> SetChildAt(n3, nChild, r.node), err |-> r.err]
          [] child.kind = "LeafNode" ->
               IF equalPaths(child.stem, stem)
               THEN [node |-> SetChildAt(n3, nChild, LeafUpdateMultipleLeaves(child, values)),
                     err |-> "ok"]
               ELSE LET nextexisting == offset2key(child.stem, child.depth)
                        r == InsertAtStem(newbranch(child, nextexisting), stem, values,
                                          resolver)
                    IN [node |-> [SetChildAt(n3, nChild, r.node) EXCEPT !.count = @ + 1],
                        err |-> r.err]
          [] OTHER -> [node |-> n3, err |-> "NotSupportedInStateless"]

\* StatelessNode.Insert
Insert(n, key, value, resolver) ==
  InsertAtStem(n, StemOf(key), MapSet(EmptyMap, SuffixOf(key), value), resolver)

\* StatelessNode.Delete
Delete(n, key, resolver) == Insert(n, key, Zero32, resolver)

\* StatelessNode.SetChild
SetChild(n, i, v) ==
  IF i >= 256 THEN [node |-> n, err |-> "child index higher than node width"]
  ELSE IF v.kind # "StatelessNode" THEN [node |-> n, err |-> "StatelessAndStatefulMix"]
  ELSE [node |-> SetChildAt(n, i, v), err |-> "ok"]

(***************************************************************************)
(* Lookup.                                                                 *)
(***************************************************************************)
RECURSIVE Get(_, _, _)
\* Get of any node of the stateless family: the node after the call, the
\* value, the error, and whether Get was called on a HashedNode
Get(n, k, getter) ==
  CASE n.kind = "StatelessNode" ->
         IF n.isLeaf
         THEN [node |-> n,
               val |-> IF BytesEqual(n.stem, StemOf(k))
                       THEN MapGet(n.values, SuffixOf(k), NilBytes) ELSE NilBytes,
               err |-> "ok", intoHashed |-> FALSE]
         ELSE
         LET nChild == offset2key(k, n.depth) IN
         IF ChildIsNil(n, nChild)
         THEN IF nChild \notin DOMAIN n.unresolved
              THEN [node |-> n, val |-> NilBytes, err |-> "ok", intoHashed |-> FALSE]
              ELSE LET got == Resolve(getter, n.unresolved[nChild]) IN
                   IF got.err # "ok"
                   THEN [node |-> n, val |-> NilBytes, err |-> "resolver", intoHashed |-> FALSE]
                   ELSE LET child == ParseStatelessNode(got.serialized, n.depth + 1,
                                                        n.unresolved[nChild])
                            r == Get(child, k, getter)
                        IN [r EXCEPT !.node =
                              [SetChildAt(n, nChild, r.node) EXCEPT
                                 !.unresolved = MapDel(@, nChild)]]
         ELSE LET r == Get(n.children[nChild], k, getter)
              IN [r EXCEPT !.node = SetChildAt(n, nChild, r.node)]
    [] n.kind = "LeafNode" ->
         [node |-> n,
          val |-> IF n.stem = StemOf(k) THEN MapGet(n.values, SuffixOf(k), NilBytes) ELSE NilBytes,
          err |-> "ok", intoHashed |-> FALSE]
    [] n.kind = "HashedNode" ->
         [node |-> n, val |-> NilBytes, err |-> "read from hashed node", intoHashed |-> TRUE]
    [] OTHER -> [node |-> n, val |-> NilBytes, err |-> "ok", intoHashed |-> FALSE]

(***************************************************************************)
(* Commit.                                                                 *)
(***************************************************************************)
RECURSIVE Commit(_)
\* Commit without `n.cow = nil`: the deltas stay pending after they are applied
CommitKeepCow(n) ==
  CASE n.kind = "StatelessNode" ->
         IF DOMAIN n.values # {} THEN [node |-> n, point |-> n.commitment]
         ELSE IF DOMAIN n.cow # {}
         THEN LET sub == [idx \in DOMAIN n.cow |-> Commit(n.children[idx])]
                  poly == [idx \in DOMAIN n.cow |->
                             FrSub(toFr(sub[idx].point), toFr(n.cow[idx]))]
                  n1 == [n EXCEPT
                           !.children = [i \in DOMAIN @ |->
                                           IF i \in DOMAIN n.cow THEN sub[i].node ELSE @[i]],
                           !.commitment = PointAdd(@, CommitToPoly(poly))]
              IN [node |-> n1, point |-> n1.commitment]
         ELSE [node |-> n, point |-> n.commitment]
    [] OTHER -> [node |-> n, point |-> Commitment(n)]

\* Commit of any node of the stateless family: the node after the call and
\* the point returned
Commit(n) ==
  CASE n.kind = "StatelessNode" ->
         IF DOMAIN n.values # {} THEN [node |-> n, point |-> n.commitment]
         ELSE IF DOMAIN n.cow # {}
         THEN LET sub == [idx \in DOMAIN n.cow |-> Commit(n.children[idx])]
                  poly == [idx \in DOMAIN n.cow |->
                             FrSub(toFr(sub[idx].point), toFr(n.cow[idx]))]
                  n1 == [n EXCEPT
                           !.children = [i \in DOMAIN @ |->
                                           IF i \in DOMAIN n.cow THEN sub[i].node ELSE @[i]],
                           !.cow = EmptyMap,
                           !.commitment = PointAdd(@, CommitToPoly(poly))]
              IN [node |-> n1, point |-> n1.commitment]
         ELSE [node |-> n, point |-> n.commitment]
    [] OTHER -> [node |-> n, point |-> Commitment(n)]

(***************************************************************************)
(* The reconstruction of a stateless tree from a proof.                    *)
(***************************************************************************)
extStatusAbsentEmpty == 0

extStatusAbsentOther == 1

extStatusPresent == 2

StemInfo(stemType, has_c1, has_c2, values, stem) ==
  [stemType |-> stemType, has_c1 |-> has_c1, has_c2 |-> has_c2, values |-> values,
   stem |-> stem]

RECURSIVE insertStem(_, _, _, _)
\* StatelessNode.insertStem: the node after the call, the commitments left,
\* and the error
insertStem(n, path, stemInfo, comms) ==
  IF Len(path) = 0 THEN [node |-> n, comms |-> comms, err |-> "invalid path"]
  ELSE IF Len(path) = 1
  THEN CASE stemInfo.stemType % 4 = extStatusAbsentEmpty ->
              [node |-> SetChildAt(n, path[1], GoNil), comms |-> comms, err |-> "ok"]
         [] stemInfo.stemType % 4 = extStatusAbsentOther ->
              IF comms = <<>> THEN [node |-> n, comms |-> comms, err |-> "panic"]
              ELSE [node |-> SetChildAt(n, path[1], HashedNode(PointBytes(comms[1]))),
                    comms |-> Tail(comms), err |-> "ok"]
         [] stemInfo.stemType % 4 = extStatusPresent ->
              LET need == 1 + (IF stemInfo.has_c1 THEN 1 ELSE 0)
                            + (IF stemInfo.has_c2 THEN 1 ELSE 0)
                  newchild ==
                    [NewStatelessWithCommitment(comms[1]) EXCEPT
                       !.c1 = IF stemInfo.has_c1 THEN comms[2] ELSE NoPoint,
                       !.c2 = IF stemInfo.has_c2
                              THEN comms[IF stemInfo.has_c1 THEN 3 ELSE 2] ELSE NoPoint,
                       !.values = stemInfo.values, !.isLeaf = TRUE,
                       !.stem = stemInfo.stem, !.depth = n.depth + 1]
              IN IF Len(comms) < need THEN [node |-> n, comms |-> comms, err |-> "panic"]
                 ELSE [node |-> SetChildAt(n, path[1], newchild),
                       comms |-> SubSeq(comms, need + 1, Len(comms)), err |-> "ok"]
         [] OTHER -> [node |-> n, comms |-> comms, err |-> "ok"]
  ELSE IF ChildIsNil(n, path[1]) /\ comms = <<>>
  THEN [node |-> n, comms |-> comms, err |-> "panic"]
  ELSE
  LET missing == ChildIsNil(n, path[1])
      n1 == IF missing
            THEN SetChildAt(n, path[1],
                   [NewStatelessWithCommitment(comms[1]) EXCEPT !.depth = n.depth + 1])
            ELSE n
      comms1 == IF missing THEN Tail(comms) ELSE comms
      child == n1.children[path[1]]
  IN IF child.kind # "StatelessNode" THEN [node |-> n1, comms |-> comms1, err |-> "panic"]
     ELSE LET r == insertStem(child, Tail(path), stemInfo, comms1)
          IN [r EXCEPT !.node = SetChildAt(n1, path[1], r.node)]

RECURSIVE insertValue(_, _, _)
\* StatelessNode.insertValue: the node after the call and the error; the
\* error of the recursive call is dropped
insertValue(n, key, value) ==
  IF DOMAIN n.children = {}
  THEN IF ~BytesEqual(StemOf(key), n.stem) THEN [node |-> n, err |-> "InsertIntoOtherStem"]
       ELSE IF ~n.isLeaf THEN [node |-> n, err |-> "panic"]
       ELSE [node |-> [n EXCEPT !.values = MapSet(@, SuffixOf(key), value)], err |-> "ok"]
  ELSE IF n.depth >= Len(key) THEN [node |-> n, err |-> "panic"]
  ELSE
  LET nChild == offset2key(key, n.depth) IN
  IF ChildIsNil(n, nChild)
  THEN IF BLen(value) # 0 THEN [node |-> n, err |-> "panic"] ELSE [node |-> n, err |-> "ok"]
  ELSE IF n.children[nChild].kind # "StatelessNode" THEN [node |-> n, err |-> "panic"]
  ELSE LET r == insertValue(n.children[nChild], key, value)
       IN [node |-> SetChildAt(n, nChild, r.node),
           err |-> IF r.err = "panic" THEN "panic" ELSE "ok"]

(***************************************************************************)
(* Proof extraction: StatelessNode.GetProofItems. A path is the sequence   *)
(* of child indices from the root; ByPath maps paths to commitments. The   *)
(* order in which the runtime ranges over the values map of a leaf is not  *)
(* fixed: highFirst is the set of stems of the leaves whose map is ranged  *)
(* over with a suffix of the upper half first.                             *)
(***************************************************************************)
NoProof == [Cis |-> <<>>, Zis |-> <<>>, Yis |-> <<>>, ByPath |-> EmptyMap]

\* one opening appended to the proof elements
Opening(pe, c, z, y) ==
  [pe EXCEPT !.Cis = Append(@, c), !.Zis = Append(@, z), !.Yis = Append(@, y)]

\* ProofElements.Merge: the openings of other follow those of pe, and a
\* path that pe has keeps its commitment
Merge(pe, other) ==
  [Cis |-> pe.Cis \o other.Cis, Zis |-> pe.Zis \o other.Zis, Yis |-> pe.Yis \o other.Yis,
   ByPath |-> [q \in DOMAIN pe.ByPath \cup DOMAIN other.ByPath |->
                 IF q \in DOMAIN pe.ByPath THEN pe.ByPath[q] ELSE other.ByPath[q]]]

RECURSIVE InternalLevel(_, _, _, _)
\* the first loop of the internal case: one opening of the commitment of n
\* for each index of todo, in ascending order
InternalLevel(n, path, pe, todo) ==
  IF todo = {} THEN pe
  ELSE LET idx == CHOOSE x \in todo : \A y \in todo : x <= y
           child == n.children[idx]
           yi == IF child.kind = "nil" THEN 0 ELSE toFr(Commitment(child))
           childpath == Append(path, idx)
           pe1 == Opening(pe, n.commitment, idx, yi)
       IN InternalLevel(n, path, [pe1 EXCEPT !.ByPath = MapSet(@, childpath, n.commitment)],
                        todo \ {idx})

\* the evaluation points of a value slot computed without the width of a
\* byte
SlotZisUnbounded(suffix) == << 2 * suffix, 2 * suffix + 1 >>

\* the evaluation points of the two openings of the value slot suffix, as
\* bytes
SlotZis(suffix) == << (2 * suffix) % 256, (2 * suffix + 1) % 256 >>

RECURSIVE LeafSlots(_, _, _, _)
\* the loop of the leaf case over the suffixes of todo, in ascending order
LeafSlots(n, path, pe, todo) ==
  IF todo = {} THEN pe
  ELSE LET suffix == CHOOSE x \in todo : \A y \in todo : x <= y
           scomm == IF suffix >= 128 THEN n.c2 ELSE n.c1
           slot == n.values[suffix]
           suffSlot == 2 + (suffix \div 128)
           slotPath == Append(path, suffSlot)
           leaves == IF slot = NilBytes THEN <<0, 0>> ELSE leafToComms(slot)
           pe1 == Opening(Opening(pe, scomm, SlotZis(suffix)[1], leaves[1]),
                          scomm, SlotZis(suffix)[2], leaves[2])
       IN IF scomm = NoPoint THEN LeafSlots(n, path, pe, todo \ {suffix})
          ELSE LeafSlots(n, path, [pe1 EXCEPT !.ByPath = MapSet(@, slotPath, scomm)],
                         todo \ {suffix})

\* the leaf case; the range over the values map stops at the first suffix
\* of the upper half, so hasC1 is set when a suffix of the lower half came
\* before it
LeafItems(n, path, highFirst) ==
  LET low == {x \in DOMAIN n.values : x < 128}
      high == {x \in DOMAIN n.values : x >= 128}
      hasC2 == high # {}
      hasC1 == low # {} /\ (high = {} \/ n.stem \notin highFirst)
      pe0 == Opening(Opening(NoProof, n.commitment, 0, 1), n.commitment, 1, StemFromBytes(n.stem))
      pe1 == IF hasC1 THEN Opening(pe0, n.commitment, 2, toFr(n.c1)) ELSE pe0
      pe2 == IF hasC2 THEN Opening(pe1, n.commitment, 3, toFr(n.c2)) ELSE pe1
      pe3 == [pe2 EXCEPT !.ByPath = MapSet(@, path, n.commitment)]
  IN IF (hasC1 /\ n.c1 = NoPoint) \/ (hasC2 /\ n.c2 = NoPoint)
     THEN [pe |-> NoProof, err |-> "panic"]
     ELSE [pe |-> LeafSlots(n, path, pe3, DOMAIN n.values), err |-> "ok"]

RECURSIVE GetProofItems(_, _, _)
RECURSIVE ProofOfChildren(_, _, _, _, _)
\* the second loop of the internal case: the proof elements of the children
\* that are StatelessNodes are merged, in ascending order of the indices
ProofOfChildren(n, path, highFirst, pe, todo) ==
  IF todo = {} THEN [pe |-> pe, err |-> "ok"]
  ELSE LET idx == CHOOSE x \in todo : \A y \in todo : x <= y
           child == n.children[idx]
           childpath == Append(path, idx)
       IN CASE child.kind = "StatelessNode" ->
                 LET r == GetProofItems(child, childpath, highFirst)
                 IN IF r.err # "ok" THEN r
                    ELSE ProofOfChildren(n, path, highFirst, Merge(pe, r.pe), todo \ {idx})
            [] child.kind \in {"nil", "HashedNode"} ->
                 ProofOfChildren(n, path, highFirst, pe, todo \ {idx})
            [] OTHER -> [pe |-> NoProof, err |-> "panic"]

\* StatelessNode.GetProofItems: the proof elements and the outcome
GetProofItems(n, path, highFirst) ==
  IF DOMAIN n.values = {}
  THEN ProofOfChildren(n, path, highFirst,
                       InternalLevel(n, path, NoProof, DOMAIN n.children), DOMAIN n.children)
  ELSE LeafItems(n, path, highFirst)


(***************************************************************************)
(* StatelessNode.Flush. The callback is called with a node; the model      *)
(* keeps with each node delivered the path of the node from the node that  *)
(* Flush was called on. The range over the children map takes the children *)
(* in the order of their indices in the sequence order, which is any       *)
(* order the runtime may take.                                             *)
(***************************************************************************)
Delivered(path, node) == [path |-> path, node |-> node]

\* the index of todo that comes first in order
FirstIn(order, todo) ==
  LET at(x) == CHOOSE j \in DOMAIN order : order[j] = x
  IN CHOOSE x \in todo : \A y \in todo : at(x) <= at(y)

RECURSIVE Flush(_, _, _)
RECURSIVE FlushEach(_, _, _, _, _)
\* a Flush that delivers the node before its children
FlushNodeFirst(n, path, order) ==
  LET n1 == Commit(n).node
      r == IF ~n1.isLeaf THEN FlushEach(n1, path, order, DOMAIN n1.children, <<>>)
           ELSE [node |-> n1, sent |-> <<>>]
  IN [node |-> r.node, sent |-> << Delivered(path, r.node) >> \o r.sent]

\* StatelessNode.Flush: the node after the call and the nodes delivered to
\* the callback, in order
Flush(n, path, order) ==
  LET n1 == Commit(n).node
      r == IF ~n1.isLeaf THEN FlushEach(n1, path, order, DOMAIN n1.children, <<>>)
           ELSE [node |-> n1, sent |-> <<>>]
  IN [node |-> r.node, sent |-> Append(r.sent, Delivered(path, r.node))]

\* the loop of Flush over the children in todo
FlushEach(n, path, order, todo, sent) ==
  IF todo = {} THEN [node |-> n, sent |-> sent]
  ELSE LET i == FirstIn(order, todo)
           child == n.children[i]
           childpath == Append(path, i)
       IN CASE child.kind = "StatelessNode" /\ child.isLeaf ->
                 FlushEach(n, path, order, todo \ {i}, Append(sent, Delivered(childpath, child)))
            [] child.kind = "StatelessNode" ->
                 LET r == Flush(child, childpath, order)
                 IN FlushEach(SetChildAt(n, i, r.node), path, order, todo \ {i}, sent \o r.sent)
            [] child.kind = "LeafNode" ->
                 FlushEach(n, path, order, todo \ {i}, Append(sent, Delivered(childpath, child)))
            [] OTHER -> FlushEach(n, path, order, todo \ {i}, sent)


(***************************************************************************)
(* StatelessNode.Serialize. The bytes returned are kept in their parts:    *)
(* the tag, the stem, the bitlist as the set of its set bits, and the body *)
(* as the sequence of the byte strings appended.                           *)
(***************************************************************************)
NodeWidth == 256

NoOutput == [type |-> "none", stem |-> <<>>, bitlist |-> {}, body |-> <<>>]

\* a value followed by the zeros that fill it to 32 bytes
Pad32(v) == IF Len(v) < 32 THEN v \o [i \in 1..(32 - Len(v)) |-> 0] ELSE v

\* the least slot of a set: the loops of Serialize run over 0..NodeWidth-1
\* in ascending order, and only the slots of todo append anything
LeastOf(todo) == CHOOSE x \in todo : \A y \in todo : x <= y

RECURSIVE SerializeValues(_, _, _)
\* the loop of the leaf case, over the slots that hold a value
SerializeValues(n, todo, out) ==
  IF todo = {} THEN [out |-> out, err |-> "ok"]
  ELSE LET i == LeastOf(todo)
       IN SerializeValues(n, todo \ {i},
            [out EXCEPT !.bitlist = @ \cup {i}, !.body = Append(@, Pad32(n.values[i]))])

RECURSIVE SerializeChildren(_, _, _)
\* the loop of the internal case, over the slots that are a key of children
\* or of unresolved; the commitment of a nil child is a nil dereference
SerializeChildren(n, todo, out) ==
  IF todo = {} THEN [out |-> out, err |-> "ok"]
  ELSE LET i == LeastOf(todo)
       IN IF i \in DOMAIN n.children
          THEN IF n.children[i].kind = "nil" THEN [out |-> NoOutput, err |-> "panic"]
               ELSE SerializeChildren(n, todo \ {i},
                      [out EXCEPT !.bitlist = @ \cup {i},
                                  !.body = Append(@, PointBytes(Commitment(n.children[i])))])
          ELSE SerializeChildren(n, todo \ {i},
                 [out EXCEPT !.bitlist = @ \cup {i}, !.body = Append(@, n.unresolved[i])])

\* StatelessNode.Serialize: the output and the error
Serialize(n) ==
  IF ~n.isInternal
  THEN IF \E i \in 0..(NodeWidth - 1) : i \notin DOMAIN n.values
       THEN [out |-> NoOutput, err |-> "NotSupportedInStateless"]
       ELSE SerializeValues(n, {i \in 0..(NodeWidth - 1) : n.values[i] # NilBytes},
                            [NoOutput EXCEPT !.type = "leaf", !.stem = n.stem])
  ELSE SerializeChildren(n, {i \in 0..(NodeWidth - 1) :
                               i \in DOMAIN n.children \/ i \in DOMAIN n.unresolved},
                         [NoOutput EXCEPT !.type = "internal"])

(***************************************************************************)
(* StatelessNode.Copy.                                                     *)
(***************************************************************************)
RECURSIVE Copy(_)
\* StatelessNode.Copy: the copy and the error. The children are copied when
\* the children map is not nil and the values otherwise; stem, c1 and c2
\* are not copied. Copy of a nil child is a nil dereference; the Copy of a
\* child of another type is taken to be a copy of all of it.
Copy(n) ==
  IF n.kind = "nil" THEN [node |-> n, err |-> "panic"]
  ELSE IF n.kind # "StatelessNode" THEN [node |-> n, err |-> "ok"]
  ELSE
  LET sub == [i \in DOMAIN n.children |-> Copy(n.children[i])]
  IN IF n.isInternal /\ \E i \in DOMAIN sub : sub[i].err # "ok"
     THEN [node |-> n, err |-> "panic"]
     ELSE [node |->
             [kind |-> "StatelessNode",
              children |-> IF n.isInternal THEN [i \in DOMAIN sub |-> sub[i].node]
                           ELSE EmptyMap,
              isInternal |-> n.isInternal,
              unresolved |-> n.unresolved,
              values |-> IF n.isInternal THEN EmptyMap
                         ELSE [i \in DOMAIN n.values |->
                                 IF n.values[i] = NilBytes THEN <<>> ELSE n.values[i]],
              isLeaf |-> ~n.isInternal,
              stem |-> <<>>, depth |-> n.depth, count |-> n.count, cow |-> n.cow,
              commitment |-> IF n.commitment = NoPoint THEN Identity ELSE n.commitment,
              c1 |-> NoPoint, c2 |-> NoPoint],
           err |-> "ok"]


(***************************************************************************)
(* The stateful tree of tree.go. The children array of an InternalNode is  *)
(* the map of its children that are not empty; depth counts bits. A hash   *)
(* is a number below HashSpace.                                            *)
(***************************************************************************)
HashSpace == 1000003

RECURSIVE Sha256From(_, _)
Sha256From(acc, bytes) ==
  IF bytes = <<>> THEN acc
  ELSE Sha256From((acc * 131 + Head(bytes) + 1) % HashSpace, Tail(bytes))

\* sha256 of a byte string
Sha256(bytes) == Sha256From(7, bytes)

BytesOf(b) == IF b = NilBytes THEN <<>> ELSE b

zeroHash == 0

\* hashToFr: the hash as an integer, reduced modulo the modulus
hashToFr(h) == h % FrModulus

\* treeConfig.width of the tree modelled
TreeWidth == 8

RECURSIVE TwoTo(_)
\* 2^n
TwoTo(n) == IF n = 0 THEN 1 ELSE 2 * TwoTo(n - 1)

RECURSIVE BitXor(_, _)
\* a ^ b
BitXor(a, b) ==
  IF a = 0 /\ b = 0 THEN 0
  ELSE (((a % 2) + (b % 2)) % 2) + 2 * BitXor(a \div 2, b \div 2)

RECURSIVE BitOr(_, _)
\* a | b
BitOr(a, b) ==
  IF a = 0 /\ b = 0 THEN 0
  ELSE (IF a % 2 = 1 \/ b % 2 = 1 THEN 1 ELSE 0) + 2 * BitOr(a \div 2, b \div 2)

\* x >> s and x << s on a byte: a shift by 8 or more gives 0, the bits
\* shifted past bit 7 are lost
ByteShr(x, s) == IF s >= 8 THEN 0 ELSE x \div TwoTo(s)
ByteShl(x, s) == IF s >= 8 THEN 0 ELSE (x * TwoTo(s)) % 256

\* a variant of offset2KeyTenBits that shifts the first byte by
\* nBitsInSecondByte
offset2KeyTenBitsPlainShift(key, offset) ==
  LET nFirstByte == offset \div 8
      nBitsInSecondByte == (offset + 10) % 8
      firstBitShift == 8 - (offset % 8)
      lastBitShift == (8 - nBitsInSecondByte) % 8
      first == key[nFirstByte + 1]
      leftMask == ByteShl(ByteShr(first, firstBitShift), firstBitShift)
      r == BitXor(first, leftMask) * TwoTo(nBitsInSecondByte)
  IN IF nFirstByte + 1 < Len(key)
     THEN BitOr(r, ByteShr(key[nFirstByte + 2], lastBitShift))
     ELSE r

\* offset2KeyTenBits, for a key that has the byte offset/8. The shift count
\* (uint(nBitsInSecondByte)-1)%8 + 1 wraps at 2^64 when nBitsInSecondByte
\* is 0; 2^64 is a multiple of 8, so the residue is that of
\* nBitsInSecondByte - 1. The shifted value is a uint: a byte shifted by at
\* most 8 loses no bit.
offset2KeyTenBits(key, offset) ==
  LET nFirstByte == offset \div 8
      nBitsInSecondByte == (offset + 10) % 8
      firstBitShift == 8 - (offset % 8)
      lastBitShift == (8 - nBitsInSecondByte) % 8
      first == key[nFirstByte + 1]
      leftMask == ByteShl(ByteShr(first, firstBitShift), firstBitShift)
      r == BitXor(first, leftMask) * TwoTo(((nBitsInSecondByte - 1) % 8) + 1)
  IN IF nFirstByte + 1 < Len(key)
     THEN BitOr(r, ByteShr(key[nFirstByte + 2], lastBitShift))
     ELSE r

\* offset2Key for the widths 10 and 8
offset2Key(key, offset, width) ==
  IF width = 10 THEN offset2KeyTenBits(key, offset) ELSE key[(offset \div 8) + 1]

\* whether key[offset/8] indexes past the key
OffsetPastKey(key, offset) == key = NilBytes \/ (offset \div 8) >= Len(key)

TEmpty == [kind |-> "empty"]

TLeaf(key, value) == [kind |-> "leafNode", key |-> key, value |-> value]

THashed(hash, commitment) == [kind |-> "hashedNode", hash |-> hash, commitment |-> commitment]

newInternalNode(depth) ==
  [kind |-> "InternalNode", children |-> EmptyMap, depth |-> depth, commitment |-> NoPoint]

\* &accountLeaf{...}; Balance is NoPoint for a nil *big.Int
TAccount(key, acct) ==
  [kind |-> "accountLeaf", key |-> key, Version |-> acct.Version, Balance |-> acct.Balance,
   Nonce |-> acct.Nonce, CodeSize |-> acct.CodeSize, CodeHash |-> acct.CodeHash,
   commitment |-> NoPoint]

\* new(accountLeaf)
ZeroAccount ==
  TAccount(NilBytes, [Version |-> 0, Balance |-> NoPoint, Nonce |-> 0, CodeSize |-> 0,
                      CodeHash |-> 0])

\* a child read as empty when it is a hashedNode
TChildHashedAsEmpty(n, i) ==
  IF MapGet(n.children, i, TEmpty).kind = "hashedNode" THEN TEmpty
  ELSE MapGet(n.children, i, TEmpty)

TChild(n, i) == MapGet(n.children, i, TEmpty)

RECURSIVE BigEndian(_, _)
\* the big-endian integer of a byte string
BigEndian(acc, bytes) ==
  IF bytes = <<>> THEN acc ELSE BigEndian((acc * 256 + Head(bytes)) % HashSpace, Tail(bytes))

\* leafNode.Hash
LeafHash(leaf) == Sha256(BytesOf(leaf.key) \o BytesOf(leaf.value))

\* accountLeaf.Insert
AccountInsert(n, k, value) ==
  IF n.key = NilBytes THEN [node |-> n, err |-> "panic"]
  ELSE IF StemOf(k) # StemOf(n.key) THEN [node |-> n, err |-> "inserting invalid key into key"]
  ELSE CASE SuffixOf(k) = 1 ->
              IF n.Balance = NoPoint THEN [node |-> n, err |-> "panic"]
              ELSE [node |-> [n EXCEPT !.Balance = BigEndian(0, BytesOf(value)),
                                       !.commitment = NoPoint], err |-> "ok"]
         [] SuffixOf(k) = 2 ->
              IF BLen(value) < 8 THEN [node |-> n, err |-> "panic"]
              ELSE [node |-> [n EXCEPT !.Nonce = BigEndian(0, SubSeq(value, 1, 8)),
                                       !.commitment = NoPoint], err |-> "ok"]
         [] OTHER -> [node |-> n, err |-> "writing to read-only location"]

RECURSIVE TreeInsert(_, _, _)
\* InternalNode.Insert: the node after the call and the error
TreeInsert(n, key, value) ==
  LET n0 == [n EXCEPT !.commitment = NoPoint]
      nChild == offset2Key(key, n.depth, TreeWidth)
      child == TChild(n0, nChild)
      put(i, c) == [n0 EXCEPT !.children = MapSet(@, i, c)]
  IN IF OffsetPastKey(key, n.depth) THEN [node |-> n0, err |-> "panic"]
     ELSE CASE child.kind = "empty" -> [node |-> put(nChild, TLeaf(key, value)), err |-> "ok"]
            [] child.kind = "hashedNode" -> [node |-> n0, err |-> "InsertIntoHash"]
            [] child.kind = "leafNode" ->
                 IF BytesEqual(child.key, key)
                 THEN [node |-> put(nChild, [child EXCEPT !.value = value]), err |-> "ok"]
                 ELSE IF OffsetPastKey(key, n.depth + TreeWidth)
                 THEN [node |-> n0, err |-> "panic"]
                 ELSE
                 LET width == TreeWidth
                     nextWordInExistingKey == offset2Key(child.key, n.depth + TreeWidth, TreeWidth)
                     newBranch == [newInternalNode(n.depth + width) EXCEPT
                                     !.children = MapSet(@, nextWordInExistingKey, child)]
                     nextWordInInsertedKey == offset2Key(key, n.depth + width, width)
                 IN IF nextWordInInsertedKey # nextWordInExistingKey
                    THEN [node |-> put(nChild, [newBranch EXCEPT !.children =
                                       MapSet(@, nextWordInInsertedKey, TLeaf(key, value))]),
                          err |-> "ok"]
                    ELSE LET r == TreeInsert(newBranch, key, value)
                         IN [node |-> put(nChild, r.node),
                             err |-> IF r.err = "panic" THEN "panic" ELSE "ok"]
            [] child.kind = "accountLeaf" ->
                 LET r == AccountInsert(child, key, value)
                 IN [node |-> put(nChild, r.node), err |-> r.err]
            [] OTHER ->
                 LET r == TreeInsert(child, key, value)
                 IN [node |-> put(nChild, r.node), err |-> r.err]

\* the 8 bytes of binary.BigEndian.PutUint64
Uint64Bytes(x) == [i \in 1..8 |-> IF i = 8 THEN x % 256 ELSE IF i = 7 THEN (x \div 256) % 256 ELSE 0]

RECURSIVE BigBytes(_)
\* big.Int.Bytes(): big-endian, without leading zeros
BigBytes(x) == IF x = 0 THEN <<>> ELSE BigBytes(x \div 256) \o << x % 256 >>

RECURSIVE TreeGet(_, _)
\* Get of any node of the stateful family: the value and the error
TreeGet(n, k) ==
  CASE n.kind = "InternalNode" ->
         IF OffsetPastKey(k, n.depth) THEN [val |-> NilBytes, err |-> "panic"]
         ELSE LET child == TChild(n, offset2Key(k, n.depth, TreeWidth))
              IN IF child.kind \in {"empty", "hashedNode"}
                 THEN [val |-> NilBytes, err |-> "trying to read from an invalid child"]
                 ELSE TreeGet(child, k)
    [] n.kind = "leafNode" ->
         IF ~BytesEqual(k, n.key) THEN [val |-> NilBytes, err |-> "value not present in tree"]
         ELSE [val |-> n.value, err |-> "ok"]
    [] n.kind = "accountLeaf" ->
         IF ~BytesEqual(k, n.key) THEN [val |-> NilBytes, err |-> "value not present in tree"]
         ELSE CASE SuffixOf(k) = 0 -> [val |-> Uint64Bytes(n.Version), err |-> "ok"]
                [] SuffixOf(k) = 1 ->
                     IF n.Balance = NoPoint THEN [val |-> NilBytes, err |-> "panic"]
                     ELSE [val |-> BigBytes(n.Balance), err |-> "ok"]
                [] SuffixOf(k) = 2 -> [val |-> Uint64Bytes(n.Nonce), err |-> "ok"]
                [] SuffixOf(k) = 3 -> [val |-> <<n.CodeHash>>, err |-> "ok"]
                [] SuffixOf(k) = 4 -> [val |-> Uint64Bytes(n.CodeSize), err |-> "ok"]
                [] OTHER -> [val |-> NilBytes, err |-> "value not present in tree"]
    [] n.kind = "hashedNode" -> [val |-> NilBytes, err |-> "can not read from a hash node"]
    [] OTHER -> [val |-> NilBytes, err |-> "ok"]

RECURSIVE ComputeCommitment(_)
\* InternalNode.ComputeCommitment: the node after the call (the commitments
\* computed are cached), the point, and the error. An accountLeaf made by
\* CreateAccount has no treeConfig: computing its commitment is a nil
\* dereference.
ComputeCommitment(n) ==
  CASE n.kind = "InternalNode" ->
         IF n.commitment # NoPoint THEN [node |-> n, point |-> n.commitment, err |-> "ok"]
         ELSE
         LET sub == [i \in DOMAIN n.children |->
                       IF n.children[i].kind \in {"leafNode", "hashedNode"}
                       THEN [node |-> n.children[i], point |-> NoPoint, err |-> "ok"]
                       ELSE ComputeCommitment(n.children[i])]
             poly == [i \in DOMAIN n.children |->
                        CASE n.children[i].kind = "leafNode" -> hashToFr(LeafHash(n.children[i]))
                          [] n.children[i].kind = "hashedNode" -> hashToFr(n.children[i].hash)
                          [] OTHER -> hashToFr(Sha256(PointBytes(sub[i].point)))]
             comm == CommitToPoly(poly)
         IN IF \E i \in DOMAIN sub : sub[i].err # "ok"
            THEN [node |-> n, point |-> NoPoint, err |-> "panic"]
            ELSE [node |-> [n EXCEPT !.children = [i \in DOMAIN sub |-> sub[i].node],
                                     !.commitment = comm],
                  point |-> comm, err |-> "ok"]
    [] OTHER -> [node |-> n, point |-> NoPoint, err |-> "panic"]

\* Hash of a node of the stateful family: the node after the call, the hash
TreeHash(n) ==
  CASE n.kind = "leafNode" -> [node |-> n, hash |-> LeafHash(n), err |-> "ok"]
    [] n.kind = "hashedNode" -> [node |-> n, hash |-> n.hash, err |-> "ok"]
    [] n.kind = "empty" -> [node |-> n, hash |-> zeroHash, err |-> "ok"]
    [] OTHER -> LET c == ComputeCommitment(n)
                IN [node |-> c.node, err |-> c.err,
                    hash |-> IF c.err = "ok" THEN Sha256(PointBytes(c.point)) ELSE zeroHash]

\* FlushableNode{hash, node}
Flushable(hash, node) == [hash |-> hash, node |-> node]

RECURSIVE TreeFlush(_)
RECURSIVE FlushChildren(_, _, _)
\* the loop of InternalNode.Flush over the children in todo, in index order
FlushChildren(n, todo, sent) ==
  IF todo = {} THEN [node |-> n, sent |-> sent, err |-> "ok"]
  ELSE LET i == CHOOSE x \in todo : \A y \in todo : x <= y
           child == n.children[i]
           put(c) == [n EXCEPT !.children = MapSet(@, i, c)]
       IN CASE child.kind = "InternalNode" ->
                 LET r == TreeFlush(child) IN
                 IF r.err # "ok" THEN [node |-> n, sent |-> sent, err |-> r.err]
                 ELSE FlushChildren(
                        put(THashed(Sha256(PointBytes(r.node.commitment)), r.node.commitment)),
                        todo \ {i}, sent \o r.sent)
            [] child.kind = "leafNode" ->
                 FlushChildren(put(THashed(LeafHash(child), NoPoint)), todo \ {i},
                               Append(sent, Flushable(LeafHash(child), child)))
            [] OTHER -> FlushChildren(n, todo \ {i}, sent)

\* InternalNode.Flush on a channel that is read: the node after the call,
\* the FlushableNodes sent in order, and the error
TreeFlush(n) ==
  LET r == FlushChildren(n, DOMAIN n.children, <<>>)
      h == TreeHash(r.node)
  IN IF r.err # "ok" \/ h.err # "ok" THEN [node |-> n, sent |-> <<>>, err |-> "panic"]
     ELSE [node |-> h.node, sent |-> Append(r.sent, Flushable(h.hash, h.node)), err |-> "ok"]

\* bls.GenG1
GenG1 == 1

\* a loop that removes the children before nChild instead of hashing them
HashPreviousAsEmpty(n, todo, hasFlush, sent) ==
  [node |-> [n EXCEPT !.children = [i \in (DOMAIN n.children) \ todo |-> n.children[i]]],
   sent |-> sent, err |-> "ok"]

\* a loop that sends the nearest leafNode before nChild and leaves it in place
HashPreviousKeepingLeaf(n, todo, hasFlush, sent) ==
  LET leaves == {i \in todo : n.children[i].kind = "leafNode"}
  IN IF leaves = {} \/ ~hasFlush THEN [node |-> n, sent |-> sent, err |-> "ok"]
     ELSE LET i == CHOOSE x \in leaves : \A y \in leaves : x >= y
          IN [node |-> n, err |-> "ok",
              sent |-> Append(sent, Flushable(LeafHash(n.children[i]), n.children[i]))]

RECURSIVE HashPrevious(_, _, _, _)
\* the loop of InsertOrdered over the children before nChild, from the
\* highest index down
HashPrevious(n, todo, hasFlush, sent) ==
  IF todo = {} THEN [node |-> n, sent |-> sent, err |-> "ok"]
  ELSE LET i == CHOOSE x \in todo : \A y \in todo : x >= y
           child == n.children[i]
           put(c) == [n EXCEPT !.children = MapSet(@, i, c)]
       IN CASE child.kind = "leafNode" ->
                 HashPrevious(put(THashed(LeafHash(child), NoPoint)), todo \ {i}, hasFlush,
                              IF hasFlush THEN Append(sent, Flushable(LeafHash(child), child))
                              ELSE sent)
            [] child.kind = "hashedNode" -> HashPrevious(n, todo \ {i}, hasFlush, sent)
            [] OTHER ->
                 LET c == ComputeCommitment(child)
                     h == Sha256(PointBytes(c.point))
                     f == TreeFlush(c.node)
                 IN IF c.err # "ok" \/ (hasFlush /\ f.err # "ok")
                    THEN [node |-> n, sent |-> sent, err |-> "panic"]
                    ELSE HashPrevious(put(THashed(h, c.point)), todo \ {i}, hasFlush,
                                      IF hasFlush THEN sent \o f.sent ELSE sent)

RECURSIVE TreeInsertOrdered(_, _, _, _)
\* InternalNode.InsertOrdered; hasFlush is flush # nil
TreeInsertOrdered(n, key, value, hasFlush) ==
  LET n0 == [n EXCEPT !.commitment = NoPoint]
      nChild == offset2Key(key, n.depth, TreeWidth)
      child == TChild(n0, nChild)
      put(m, i, c) == [m EXCEPT !.children = MapSet(@, i, c)]
  IN IF OffsetPastKey(key, n.depth) THEN [node |-> n0, sent |-> <<>>, err |-> "panic"]
     ELSE CASE child.kind = "empty" ->
                 LET r == HashPrevious(n0, {i \in DOMAIN n0.children : i < nChild}, hasFlush, <<>>)
                 IN IF r.err # "ok" THEN r
                    ELSE [node |-> put(r.node, nChild, TLeaf(key, value)), sent |-> r.sent,
                          err |-> "ok"]
            [] child.kind = "hashedNode" -> [node |-> n0, sent |-> <<>>, err |-> "InsertIntoHash"]
            [] child.kind = "leafNode" ->
                 IF BytesEqual(child.key, key)
                 THEN [node |-> put(n0, nChild, [child EXCEPT !.value = value]), sent |-> <<>>,
                       err |-> "ok"]
                 ELSE IF OffsetPastKey(key, n.depth + TreeWidth)
                 THEN [node |-> n0, sent |-> <<>>, err |-> "panic"]
                 ELSE
                 LET width == TreeWidth
                     nextWordInExistingKey == offset2Key(child.key, n.depth + width, width)
                     newBranch == newInternalNode(n.depth + width)
                     nextWordInInsertedKey == offset2Key(key, n.depth + width, width)
                 IN IF nextWordInInsertedKey # nextWordInExistingKey
                    THEN LET h == LeafHash(child)
                             comm == ScalarMul(GenG1, hashToFr(h))
                             b1 == put(newBranch, nextWordInExistingKey, THashed(h, comm))
                             b2 == put(b1, nextWordInInsertedKey, TLeaf(key, value))
                         IN [node |-> put(n0, nChild, b2),
                             sent |-> IF hasFlush THEN << Flushable(h, child) >> ELSE <<>>,
                             err |-> "ok"]
                    ELSE LET r == TreeInsertOrdered(put(newBranch, nextWordInExistingKey, child),
                                                    key, value, hasFlush)
                         IN [node |-> put(n0, nChild, r.node), sent |-> r.sent,
                             err |-> IF r.err = "panic" THEN "panic" ELSE "ok"]
            [] child.kind = "accountLeaf" ->
                 LET r == AccountInsert(child, key, value)
                 IN IF r.err # "ok" /\ hasFlush
                    THEN [node |-> n0, sent |-> <<>>, err |-> "panic"]
                    ELSE [node |-> put(n0, nChild, r.node), sent |-> <<>>, err |-> r.err]
            [] OTHER ->
                 LET r == TreeInsertOrdered(child, key, value, hasFlush)
                 IN [node |-> put(n0, nChild, r.node), sent |-> r.sent, err |-> r.err]

RECURSIVE CreateAccount(_, _, _)
\* InternalNode.CreateAccount: the node after the call and the error
CreateAccount(n, key, acct) ==
  LET nChild == offset2Key(key, n.depth, TreeWidth)
      child == TChild(n, nChild)
      put(i, c) == [n EXCEPT !.children = MapSet(@, i, c)]
  IN IF OffsetPastKey(key, n.depth) THEN [node |-> n, err |-> "panic"]
     ELSE CASE child.kind \in {"leafNode", "hashedNode"} ->
                 [node |-> n, err |-> "trying to create an account in an invalid subtree"]
            [] child.kind = "empty" -> [node |-> put(nChild, TAccount(key, acct)), err |-> "ok"]
            [] child.kind = "accountLeaf" ->
                 IF OffsetPastKey(child.key, n.depth + 1) \/ OffsetPastKey(key, n.depth + 1)
                 THEN [node |-> n, err |-> "panic"]
                 ELSE
                 LET nExisting == offset2Key(child.key, n.depth + 1, TreeWidth)
                     nNew == offset2Key(key, n.depth + 1, TreeWidth)
                     newBranch == [newInternalNode(n.depth + TreeWidth) EXCEPT
                                     !.children = MapSet(@, nExisting, child)]
                 IN IF nExisting # nNew
                    THEN LET r == CreateAccount(newBranch, key, acct)
                         IN [node |-> put(nChild, r.node), err |-> r.err]
                    ELSE [node |-> put(nNew, ZeroAccount),
                          err |-> "creating over an already exisiting account"]
            [] OTHER ->
                 LET r == CreateAccount(child, key, acct)
                 IN [node |-> put(nChild, r.node), err |-> r.err]

(***************************************************************************)
(* The inputs of the model: keys, values, and the tree behind the          *)
(* resolver.                                                               *)
(***************************************************************************)
Keys == { <<0, 0, 0>>, <<0, 0, 128>>, <<0, 2, 0>>, <<1, 1, 0>> }

Values == { NilBytes, <<1>>, <<2>> }

\* the leaves and the internal node of the backing tree, below its root
BackLeaf00 == NewLeafNode(<<0, 0>>, MapSet(EmptyMap, 0, <<1>>), 2)

BackLeaf01 == NewLeafNode(<<0, 1>>, MapSet(EmptyMap, 128, <<2>>), 2)

BackLeaf10 == NewLeafNode(<<1, 0>>, MapSet(EmptyMap, 0, <<1>>), 1)

\* the commitment of an internal node from the commitments of its children
InternalCommitment(comms) ==
  CommitToPoly([i \in DOMAIN comms |-> toFr(PointFromBytes(comms[i]))])

BackInnerComms ==
  MapSet(MapSet(EmptyMap, 0, PointBytes(BackLeaf00.commitment)),
         1, PointBytes(BackLeaf01.commitment))

BackRootComms ==
  MapSet(MapSet(EmptyMap, 0, PointBytes(InternalCommitment(BackInnerComms))),
         1, PointBytes(BackLeaf10.commitment))

\* the backing store: commitment bytes to serialized node
BackingStore ==
  LET put(m, c, ser) == MapSet(m, PointBytes(c), ser)
  IN put(put(put(put(EmptyMap,
       InternalCommitment(BackInnerComms), SerializedInternal(BackInnerComms)),
       BackLeaf00.commitment, SerializedLeaf(BackLeaf00.stem, BackLeaf00.values)),
       BackLeaf01.commitment, SerializedLeaf(BackLeaf01.stem, BackLeaf01.values)),
       BackLeaf10.commitment, SerializedLeaf(BackLeaf10.stem, BackLeaf10.values))

\* the root of a stateless tree read from the serialized root of the backing tree
ParsedRoot ==
  ParseStatelessNode(SerializedInternal(BackRootComms), 0,
                     PointBytes(InternalCommitment(BackRootComms)))

\* the arguments of SetChild
SetChildInputs ==
  { <<0, ParseStatelessNode(SerializedInternal(BackInnerComms), 1,
                            PointBytes(InternalCommitment(BackInnerComms)))>>,
    <<1, [NewStateless EXCEPT !.depth = 1]>>,
    <<1, BackLeaf10>>,
    <<256, NewStateless>> }

\* a tree rebuilt from a proof: one stem is present, at slot 3 of the root,
\* with its value at suffix 0 and so with c1 only
ProofLeaf == NewLeafNode(<<3, 0>>, MapSet(EmptyMap, 0, <<1>>), 1)

ProofRootCommitment ==
  InternalCommitment(MapSet(EmptyMap, 3, PointBytes(ProofLeaf.commitment)))

ProofRoot ==
  insertStem(NewStatelessWithCommitment(ProofRootCommitment), <<3>>,
             StemInfo(extStatusPresent, TRUE, FALSE, ProofLeaf.values, ProofLeaf.stem),
             <<ProofLeaf.commitment, ProofLeaf.c1>>).node

ProofKeys == { <<3, 0, 0>>, <<3, 0, 128>>, <<3, 1, 0>>, <<4, 0, 0>> }

\* keys of the stateful tree; the suffixes 1 and 2 are the balance and the
\* nonce of an account
TreeKeys == { <<0, 0, 1>>, <<0, 0, 2>>, <<0, 1, 1>>, <<1, 0, 0>> }

Accounts == { [Version |-> 0, Balance |-> 5, Nonce |-> 1, CodeSize |-> 0, CodeHash |-> 0] }

(***************************************************************************)
(* The state machine. mode is the kind of tree: "resolved" is a stateless  *)
(* tree whose root was parsed from the backing store, "fresh" a stateless  *)
(* tree that starts empty, "proof" a stateless tree rebuilt from a proof,  *)
(* "stateful" the tree of tree.go, which starts empty. ret is the last     *)
(* call and what it returned. agreed and log are history variables: agreed *)
(* is whether the commitment of the root agreed with its children when the *)
(* current batch began, log is the list of the inserts made as long as     *)
(* every call was an insert that succeeded, base is the stateless tree as  *)
(* it was when the current batch began.                                    *)
(***************************************************************************)
StatelessModes == {"resolved", "fresh", "proof"}

Modes == StatelessModes \cup {"stateful"}

KeysOf(m) == IF m = "proof" THEN ProofKeys ELSE IF m = "stateful" THEN TreeKeys ELSE Keys

NoCall == [op |-> "none", key |-> <<>>, arg |-> NilBytes, val |-> NilBytes, err |-> "ok",
           intoHashed |-> FALSE, point |-> NoPoint, sent |-> <<>>, pe |-> NoProof,
           out |-> NoOutput, start |-> 0, batch |-> EmptyMap, word |-> 0]

\* the commitment of a slot of a stateless internal node
SlotCommitment(n, i) ==
  IF ~ChildIsNil(n, i) THEN Commitment(n.children[i])
  ELSE IF i \in DOMAIN n.unresolved THEN PointFromBytes(n.unresolved[i])
  ELSE Identity

\* the commitment of a stateless internal node, from its children
full_recommit_from_children(n) ==
  CommitToPoly([i \in DOMAIN n.children \cup DOMAIN n.unresolved |->
                  toFr(SlotCommitment(n, i))])

NoLog == [on |-> FALSE, calls |-> <<>>]

Init ==
  /\ mode \in Modes
  /\ root = CASE mode = "resolved" -> ParsedRoot
              [] mode = "fresh" -> NewStateless
              [] mode = "proof" -> ProofRoot
              [] OTHER -> newInternalNode(0)
  /\ ret = NoCall
  /\ steps = 0
  /\ agreed = (mode \in StatelessModes /\ root.commitment = full_recommit_from_children(root))
  /\ log = [on |-> TRUE, calls |-> <<>>]
  /\ base = root

CanCall == steps < MaxOps /\ ret.err # "panic"

\* a call that panics ends the program: the tree is not used again
After(r) == IF r.err = "panic" THEN root ELSE r.node

Logged(k, v, err) ==
  IF log.on /\ err = "ok" THEN [log EXCEPT !.calls = Append(@, <<k, v>>)] ELSE NoLog

DoInsert(k, v, up) ==
  /\ CanCall /\ mode \in StatelessModes
  /\ LET r == Insert(root, k, v, Resolver(BackingStore, up))
     IN /\ root' = After(r)
        /\ ret' = [NoCall EXCEPT !.op = "Insert", !.key = k, !.arg = v, !.err = r.err]
        /\ log' = Logged(k, v, r.err)
  /\ steps' = steps + 1
  /\ UNCHANGED <<mode, agreed, base>>

DoDelete(k, up) ==
  /\ CanCall /\ mode \in StatelessModes
  /\ LET r == Delete(root, k, Resolver(BackingStore, up))
     IN /\ root' = After(r)
        /\ ret' = [NoCall EXCEPT !.op = "Delete", !.key = k, !.arg = Zero32, !.err = r.err]
  /\ steps' = steps + 1
  /\ log' = NoLog
  /\ UNCHANGED <<mode, agreed, base>>

DoGet(k, up) ==
  /\ CanCall /\ mode \in StatelessModes
  /\ LET r == Get(root, k, Resolver(BackingStore, up))
     IN /\ root' = r.node
        /\ ret' = [NoCall EXCEPT !.op = "Get", !.key = k, !.val = r.val, !.err = r.err,
                                 !.intoHashed = r.intoHashed]
  /\ steps' = steps + 1
  /\ log' = NoLog
  /\ UNCHANGED <<mode, agreed, base>>

DoCommit ==
  /\ CanCall /\ mode \in StatelessModes
  /\ LET r == Commit(root)
     IN /\ root' = r.node
        /\ ret' = [NoCall EXCEPT !.op = "Commit", !.point = r.point]
        /\ agreed' = (r.node.commitment = full_recommit_from_children(r.node))
        /\ base' = r.node
  /\ steps' = steps + 1
  /\ log' = NoLog
  /\ UNCHANGED mode

DoSetChild(i, v) ==
  /\ CanCall /\ mode \in StatelessModes
  /\ LET r == SetChild(root, i, v)
     IN /\ root' = r.node
        /\ ret' = [NoCall EXCEPT !.op = "SetChild", !.key = <<i>>, !.err = r.err]
  /\ steps' = steps + 1
  /\ log' = NoLog
  /\ UNCHANGED <<mode, agreed, base>>

DoTreeInsert(k, v) ==
  /\ CanCall /\ mode = "stateful"
  /\ LET r == TreeInsert(root, k, v)
     IN /\ root' = After(r)
        /\ ret' = [NoCall EXCEPT !.op = "Insert", !.key = k, !.arg = v, !.err = r.err]
        /\ log' = Logged(k, v, r.err)
  /\ steps' = steps + 1
  /\ UNCHANGED <<mode, agreed, base>>

DoTreeInsertOrdered(k, v, hasFlush) ==
  /\ CanCall /\ mode = "stateful"
  /\ LET r == TreeInsertOrdered(root, k, v, hasFlush)
     IN /\ root' = After(r)
        /\ ret' = [NoCall EXCEPT !.op = "InsertOrdered", !.key = k, !.arg = v, !.err = r.err,
                                 !.sent = IF r.err = "panic" THEN <<>> ELSE r.sent]
  /\ steps' = steps + 1
  /\ log' = NoLog
  /\ UNCHANGED <<mode, agreed, base>>

DoCreateAccount(k, acct) ==
  /\ CanCall /\ mode = "stateful"
  /\ LET r == CreateAccount(root, k, acct)
     IN /\ root' = After(r)
        /\ ret' = [NoCall EXCEPT !.op = "CreateAccount", !.key = k, !.err = r.err]
  /\ steps' = steps + 1
  /\ log' = NoLog
  /\ UNCHANGED <<mode, agreed, base>>

DoTreeFlush ==
  /\ CanCall /\ mode = "stateful"
  /\ LET r == TreeFlush(root)
     IN /\ root' = After(r)
        /\ ret' = [NoCall EXCEPT !.op = "Flush", !.err = r.err, !.sent = r.sent]
  /\ steps' = steps + 1
  /\ log' = NoLog
  /\ UNCHANGED <<mode, agreed, base>>

DoComputeCommitment ==
  /\ CanCall /\ mode = "stateful"
  /\ LET r == ComputeCommitment(root)
     IN /\ root' = After(r)
        /\ ret' = [NoCall EXCEPT !.op = "ComputeCommitment", !.err = r.err, !.point = r.point]
  /\ steps' = steps + 1
  /\ log' = NoLog
  /\ UNCHANGED <<mode, agreed, base>>

DoTreeGet(k) ==
  /\ CanCall /\ mode = "stateful"
  /\ LET r == TreeGet(root, k)
     IN ret' = [NoCall EXCEPT !.op = "Get", !.key = k, !.val = r.val, !.err = r.err]
  /\ steps' = steps + 1
  /\ log' = NoLog
  /\ UNCHANGED <<mode, root, agreed, base>>

Next ==
  \/ \E k \in KeysOf(mode), v \in Values, up \in BOOLEAN : DoInsert(k, v, up)
  \/ \E k \in KeysOf(mode), up \in BOOLEAN : DoDelete(k, up)
  \/ \E k \in KeysOf(mode), up \in BOOLEAN : DoGet(k, up)
  \/ DoCommit
  \/ \E in \in SetChildInputs : DoSetChild(in[1], in[2])
  \/ \E k \in TreeKeys, v \in Values : DoTreeInsert(k, v)
  \/ \E k \in TreeKeys, v \in Values, hasFlush \in BOOLEAN : DoTreeInsertOrdered(k, v, hasFlush)
  \/ \E k \in TreeKeys, acct \in Accounts : DoCreateAccount(k, acct)
  \/ DoTreeFlush
  \/ DoComputeCommitment
  \/ \E k \in TreeKeys : DoTreeGet(k)

Spec == Init /\ [][Next]_vars

(***************************************************************************)
(* Flush, on the four kinds of tree, after inserts.                        *)
(***************************************************************************)
RECURSIVE IndicesOf(_)
\* the child indices that occur in a stateless tree
IndicesOf(n) ==
  IF n.kind = "StatelessNode"
  THEN DOMAIN n.children \cup UNION {IndicesOf(n.children[i]) : i \in DOMAIN n.children}
  ELSE {}

\* the orders in which the indices of S can be taken
Orders(S) ==
  {f \in [1..Cardinality(S) -> S] : \A i, j \in 1..Cardinality(S) : i # j => f[i] # f[j]}

DoFlush(order) ==
  /\ CanCall /\ mode \in StatelessModes
  /\ LET r == Flush(root, <<>>, order)
     IN /\ root' = r.node
        /\ ret' = [NoCall EXCEPT !.op = "Flush", !.sent = r.sent]
        /\ agreed' = (r.node.commitment = full_recommit_from_children(r.node))
        /\ base' = r.node
  /\ steps' = steps + 1
  /\ log' = NoLog
  /\ UNCHANGED mode

FlushNext ==
  \/ \E k \in KeysOf(mode) : DoInsert(k, <<1>>, TRUE)
  \/ \E order \in Orders(IndicesOf(root)) : DoFlush(order)
  \/ \E k \in TreeKeys : DoTreeInsert(k, <<1>>)
  \/ DoTreeFlush

FlushSpec == Init /\ [][FlushNext]_vars

(***************************************************************************)
(* Proof extraction on the trees rebuilt from a proof. The proof names one *)
(* stem that is present, with the values of the suffixes asked for (a nil  *)
(* value is a suffix that was never written) and with C1 and C2 when a     *)
(* suffix of that half was asked for; it may also name an empty slot, a    *)
(* slot taken by another stem, and an empty slot one level down.           *)
(***************************************************************************)
\* the number of calls made on a tree rebuilt from a proof
ProofOps == 2

ProofSuffixes == {0, 1, 128, 129}

ProofValueMaps ==
  UNION {[S -> {NilBytes, <<1>>}] : S \in (SUBSET ProofSuffixes) \ {{}}}

ProofStems == { <<3, 0>> }

ProofExtras == SUBSET {"empty", "other", "nested"}

OtherLeaf == NewLeafNode(<<5, 1>>, MapSet(EmptyMap, 0, <<2>>), 1)

\* the tree that insertStem builds from the proof
ProofTree(vals, extras) ==
  LET leaf == NewLeafNode(<<3, 0>>, vals, 1)
      has_c1 == \E x \in DOMAIN vals : x < 128
      has_c2 == \E x \in DOMAIN vals : x >= 128
      comms == << leaf.commitment >> \o (IF has_c1 THEN << leaf.c1 >> ELSE <<>>)
                                     \o (IF has_c2 THEN << leaf.c2 >> ELSE <<>>)
      rootC == InternalCommitment(
                 [i \in {3} \cup (IF "other" \in extras THEN {5} ELSE {}) |->
                    IF i = 3 THEN PointBytes(leaf.commitment)
                    ELSE PointBytes(OtherLeaf.commitment)])
      r1 == insertStem(NewStatelessWithCommitment(rootC), <<3>>,
                       StemInfo(extStatusPresent, has_c1, has_c2, vals, <<3, 0>>), comms).node
      r2 == IF "empty" \in extras
            THEN insertStem(r1, <<4>>,
                            StemInfo(extStatusAbsentEmpty, FALSE, FALSE, EmptyMap, <<4, 0>>),
                            <<>>).node
            ELSE r1
      r3 == IF "other" \in extras
            THEN insertStem(r2, <<5>>,
                            StemInfo(extStatusAbsentOther, FALSE, FALSE, EmptyMap, <<5, 0>>),
                            << OtherLeaf.commitment >>).node
            ELSE r2
  IN IF "nested" \in extras
     THEN insertStem(r3, <<6, 0>>,
                     StemInfo(extStatusAbsentEmpty, FALSE, FALSE, EmptyMap, <<6, 0>>),
                     << Identity >>).node
     ELSE r3

ProofInit ==
  /\ mode = "proof"
  /\ \E vals \in ProofValueMaps, extras \in ProofExtras : root = ProofTree(vals, extras)
  /\ ret = NoCall
  /\ steps = 0
  /\ agreed = (root.commitment = full_recommit_from_children(root))
  /\ log = [on |-> TRUE, calls |-> <<>>]
  /\ base = root

DoGetProofItems(highFirst) ==
  /\ CanCall /\ mode \in StatelessModes
  /\ LET r == GetProofItems(root, <<>>, highFirst)
     IN ret' = [NoCall EXCEPT !.op = "GetProofItems", !.err = r.err, !.pe = r.pe]
  /\ steps' = steps + 1
  /\ log' = NoLog
  /\ UNCHANGED <<mode, root, agreed, base>>

\* the keys written after the reconstruction: in the leaf of the proof and
\* in the slot that the proof shows empty
ProofWriteKeys == { <<3, 0, 1>>, <<4, 0, 0>> }

DoSerialize ==
  /\ CanCall /\ mode \in StatelessModes
  /\ LET r == Serialize(root)
     IN ret' = [NoCall EXCEPT !.op = "Serialize", !.err = r.err, !.out = r.out]
  /\ steps' = steps + 1
  /\ log' = NoLog
  /\ UNCHANGED <<mode, root, agreed, base>>

ProofNext ==
  \/ \E highFirst \in SUBSET ProofStems : steps < ProofOps /\ DoGetProofItems(highFirst)
  \/ \E k \in ProofWriteKeys : steps < ProofOps /\ DoInsert(k, <<2>>, TRUE)
  \/ steps < ProofOps /\ DoSerialize

ProofSpec == ProofInit /\ [][ProofNext]_vars

(***************************************************************************)
(* Calls on the nodes of a tree rebuilt from a proof: insertValue on the   *)
(* root (start = 0) or on the child of the root on the path of the key     *)
(* (start = 1), and Insert.                                                *)
(***************************************************************************)
ValueOps == 2

InsertValueKeys == { <<3, 0, 1>>, <<3, 1, 0>>, <<4, 0, 0>>, <<5, 0, 0>>, <<6, 0, 0>> }

InsertValueValues == { NilBytes, <<2>> }

DoInsertValue(start, k, v) ==
  /\ CanCall /\ mode \in StatelessModes
  /\ start = 1 => /\ ~ChildIsNil(root, offset2key(k, 0))
                  /\ root.children[offset2key(k, 0)].kind = "StatelessNode"
  /\ LET r == IF start = 0 THEN insertValue(root, k, v)
              ELSE LET c == insertValue(root.children[offset2key(k, 0)], k, v)
                   IN [node |-> SetChildAt(root, offset2key(k, 0), c.node), err |-> c.err]
     IN /\ root' = After(r)
        /\ ret' = [NoCall EXCEPT !.op = "insertValue", !.key = k, !.arg = v, !.err = r.err,
                                 !.start = start]
  /\ steps' = steps + 1
  /\ log' = NoLog
  /\ UNCHANGED <<mode, agreed, base>>

DoCopy ==
  /\ CanCall /\ mode \in StatelessModes
  /\ LET r == Copy(root)
     IN /\ root' = After(r)
        /\ ret' = [NoCall EXCEPT !.op = "Copy", !.err = r.err]
  /\ steps' = steps + 1
  /\ log' = NoLog
  /\ UNCHANGED <<mode, agreed, base>>

ValueNext ==
  \/ \E start \in {0, 1}, k \in InsertValueKeys, v \in InsertValueValues :
       steps < ValueOps /\ DoInsertValue(start, k, v)
  \/ \E k \in ProofWriteKeys : steps < ValueOps /\ DoInsert(k, <<2>>, TRUE)
  \/ steps < ValueOps /\ DoCopy

\* the trees of ProofInit whose leaf holds the suffixes 0 and 128 at most
ValueInit == ProofInit /\ DOMAIN root.children[3].values \subseteq {0, 128}

ValueSpec == ValueInit /\ [][ValueNext]_vars

(***************************************************************************)
(* Two stateful trees built from the same pairs, given in strictly         *)
(* ascending key order: root with InsertOrdered and base with Insert.      *)
(***************************************************************************)
OrderedOps == 4

OrderedKeys == { <<a, b, c>> : a \in {0, 1}, b \in {0, 1}, c \in {0, 1} }

\* a is before b in the lexicographic order of keys of one length
RECURSIVE KeyLess(_, _)
KeyLess(a, b) ==
  /\ a # <<>> /\ b # <<>>
  /\ \/ Head(a) < Head(b)
     \/ (Head(a) = Head(b) /\ KeyLess(Tail(a), Tail(b)))

OrderedInit == Init /\ mode = "stateful"

DoInsertOrderedAndInsert(k, v, hasFlush) ==
  /\ steps < OrderedOps /\ ret.err = "ok" /\ mode = "stateful"
  /\ ret.key = <<>> \/ KeyLess(ret.key, k)
  /\ LET ro == TreeInsertOrdered(root, k, v, hasFlush)
         ri == TreeInsert(base, k, v)
     IN /\ root' = ro.node
        /\ base' = ri.node
        /\ ret' = [NoCall EXCEPT !.op = "InsertOrdered", !.key = k, !.arg = v,
                                 !.err = IF ro.err # "ok" THEN ro.err ELSE ri.err,
                                 !.sent = ro.sent]
  /\ steps' = steps + 1
  /\ log' = NoLog
  /\ UNCHANGED <<mode, agreed>>

OrderedNext ==
  \E k \in OrderedKeys, v \in {<<1>>, <<2>>}, hasFlush \in BOOLEAN :
    DoInsertOrderedAndInsert(k, v, hasFlush)

OrderedSpec == OrderedInit /\ [][OrderedNext]_vars

(***************************************************************************)
(* Batches: InsertAtStem with several values of one stem, and Commit, on   *)
(* the tree parsed from the backing store and on trees rebuilt from a      *)
(* proof.                                                                  *)
(***************************************************************************)
BatchOps == 2

BatchStems == { <<0, 0>>, <<0, 2>>, <<1, 1>>, <<3, 0>>, <<4, 0>> }

\* the values of a batch, by suffix
Batches ==
  UNION {[S -> {<<2>>}] : S \in (SUBSET {0, 1, 128}) \ {{}}}
  \cup {[i \in {0, 1} |-> <<1>>]}

BatchInit ==
  \/ Init /\ mode = "resolved"
  \/ ProofInit /\ DOMAIN root.children = {3}
               /\ DOMAIN root.children[3].values \subseteq {0, 128}

DoInsertAtStem(stem, values, up) ==
  /\ CanCall /\ mode \in StatelessModes
  /\ LET r == InsertAtStem(root, stem, values, Resolver(BackingStore, up))
     IN /\ root' = After(r)
        /\ ret' = [NoCall EXCEPT !.op = "InsertAtStem", !.key = stem, !.batch = values,
                                 !.err = r.err]
  /\ steps' = steps + 1
  /\ log' = NoLog
  /\ UNCHANGED <<mode, agreed, base>>

BatchNext ==
  \/ \E stem \in BatchStems, values \in Batches, up \in BOOLEAN :
       /\ steps < BatchOps
       /\ (mode = "proof") = (stem[1] >= 3)
       /\ DoInsertAtStem(stem, values, up)
  \/ steps < BatchOps /\ DoCommit

BatchSpec == BatchInit /\ [][BatchNext]_vars

(***************************************************************************)
(* InsertOrdered with a flush channel, the keys ascending, then one Flush  *)
(* of the root. ret.sent is all that was sent on the channel so far; base  *)
(* is the tree that Insert builds from the same pairs.                     *)
(***************************************************************************)
ChannelOps == 4

DoInsertOrderedSending(k, v) ==
  /\ steps < ChannelOps /\ ret.err = "ok" /\ ret.op # "Flush" /\ mode = "stateful"
  /\ ret.key = <<>> \/ ~KeyLess(k, ret.key)
  /\ LET ro == TreeInsertOrdered(root, k, v, TRUE)
         ri == TreeInsert(base, k, v)
     IN /\ root' = ro.node
        /\ base' = ri.node
        /\ ret' = [NoCall EXCEPT !.op = "InsertOrdered", !.key = k, !.arg = v,
                                 !.err = IF ro.err # "ok" THEN ro.err ELSE ri.err,
                                 !.sent = ret.sent \o ro.sent]
  /\ steps' = steps + 1
  /\ log' = NoLog
  /\ UNCHANGED <<mode, agreed>>

DoFlushRoot ==
  /\ ret.err = "ok" /\ ret.op # "Flush" /\ mode = "stateful"
  /\ LET r == TreeFlush(root)
     IN /\ root' = r.node
        /\ ret' = [NoCall EXCEPT !.op = "Flush", !.key = ret.key, !.err = r.err,
                                 !.sent = ret.sent \o r.sent]
  /\ steps' = steps + 1
  /\ log' = NoLog
  /\ UNCHANGED <<mode, agreed, base>>

ChannelNext ==
  \/ \E k \in OrderedKeys, v \in {<<1>>, <<2>>} : DoInsertOrderedSending(k, v)
  \/ DoFlushRoot

ChannelSpec == OrderedInit /\ [][ChannelNext]_vars

(***************************************************************************)
(* offset2Key for the width 10 on 32-byte keys. The key is fixed at the    *)
(* start; each call reads the ten bits at one offset. ret.start is the     *)
(* offset and ret.word the result.                                         *)
(***************************************************************************)
WordOps == 2

\* the bytes the keys are made of
WordBytes == {0, 1, 63, 64, 128, 165, 195, 255}

\* 32-byte keys: one byte everywhere but for two neighbours
WordKeys ==
  {[i \in 1..32 |-> IF i = p THEN a ELSE IF i = p + 1 THEN b ELSE fill] :
     a \in WordBytes, b \in WordBytes, p \in {1, 2, 16, 31, 32}, fill \in {0, 255}}

\* the depths of the nodes of a tree of width 10
WordOffsets == {10 * i : i \in 0..25}

WordInit ==
  /\ mode = "stateful"
  /\ root = newInternalNode(0)
  /\ ret \in {[NoCall EXCEPT !.key = k] : k \in WordKeys}
  /\ steps = 0
  /\ agreed = FALSE
  /\ log = [on |-> TRUE, calls |-> <<>>]
  /\ base = root

DoOffset2Key(offset) ==
  /\ steps < WordOps /\ ret.err = "ok"
  /\ ret' = IF OffsetPastKey(ret.key, offset)
            THEN [NoCall EXCEPT !.op = "offset2Key", !.key = ret.key, !.start = offset,
                                !.err = "panic"]
            ELSE [NoCall EXCEPT !.op = "offset2Key", !.key = ret.key, !.start = offset,
                                !.word = offset2Key(ret.key, offset, 10)]
  /\ steps' = steps + 1
  /\ log' = NoLog
  /\ UNCHANGED <<mode, root, agreed, base>>

WordNext == \E offset \in WordOffsets : DoOffset2Key(offset)

WordSpec == WordInit /\ [][WordNext]_vars

(***************************************************************************)
(* The properties.                                                         *)
(***************************************************************************)
\* C1: for a stateless internal node whose commitment agreed with its
\* children when the batch began, after any mutations of its children
\* (Insert, Delete, SetChild) and Commit, the commitment of the node is the
\* one recomputed from its current children: the sum of
\* toFr(child commitment) * SRS[i], an unresolved child counted by its
\* stored commitment and an empty slot as 0.
C1_BatchedCommitEqualsFullRecommit ==
  [][(ret'.op = "Commit" /\ agreed) =>
       root'.commitment = full_recommit_from_children(root')]_vars

RECURSIVE Observed(_)
\* what C2 compares: the children, unresolved and cow maps and the
\* commitment of every stateless node
Observed(n) ==
  IF n.kind = "StatelessNode"
  THEN [children |-> [i \in DOMAIN n.children |-> Observed(n.children[i])],
        unresolved |-> n.unresolved, cow |-> n.cow, commitment |-> n.commitment]
  ELSE n

\* C2: when the resolver returns an error during Insert or Delete (both are
\* InsertAtStem), the children, unresolved and cow maps and the commitment
\* of every node are the same after the call as before it.
C2_ResolverErrorLeavesTreeUnchanged ==
  [][(ret'.op \in {"Insert", "Delete"} /\ ret'.err = "resolver") =>
       Observed(root') = Observed(root)]_vars

\* C3: in every reachable state of a stateless tree, Get and InsertAtStem
\* never descend into a HashedNode: a slot known only by its commitment is
\* resolved and replaced by the parsed node before the call recurses.
C3_NoDescentIntoHashedNode ==
  mode \in StatelessModes => ~ret.intoHashed

RECURSIVE Exclusive(_)
\* no slot of a stateless node of the tree has both an unresolved entry and
\* a child
Exclusive(n) ==
  n.kind = "StatelessNode" =>
    /\ \A i \in DOMAIN n.unresolved : ChildIsNil(n, i)
    /\ \A i \in DOMAIN n.children : Exclusive(n.children[i])

\* C4: after any sequence of Get, Insert, Delete and Commit calls, no slot
\* of a stateless node has both unresolved[i] and children[i] set.
C4_UnresolvedAndChildrenExclusive ==
  mode \in StatelessModes => Exclusive(root)

\* Get on the tree of the current mode, with a resolver that works: the
\* value and the error
Lookup(n, k) ==
  IF mode = "stateful" THEN TreeGet(n, k)
  ELSE LET r == Get(n, k, Resolver(BackingStore, TRUE)) IN [val |-> r.val, err |-> r.err]

\* C5: read-your-writes, in the stateful and in the stateless tree: after
\* Insert(k, v) with a non-empty v returns without error, following only
\* inserts that succeeded, Get(k) returns v, whatever kind of node the path
\* of k meets.
C5_ReadYourWrites ==
  (ret.op = "Insert" /\ ret.err = "ok" /\ BLen(ret.arg) # 0 /\ log.on) =>
    Lookup(root, ret.key) = [val |-> ret.arg, err |-> "ok"]

\* what a caller of Get learns: the value, and whether there was an error
Result(r) == [val |-> r.val, ok |-> r.err = "ok"]

\* C6: Insert(k, v) changes the value of the key k only: for every other
\* key, Get returns the same result before and after an insert that
\* succeeded; so an insert under a stem other than the stem of the leaf on
\* its path changes no value stored under the stem of that leaf.
C6_InsertChangesOnlyItsKey ==
  [][(ret'.op = "Insert" /\ ret'.err = "ok") =>
       \A k \in KeysOf(mode) \ {ret'.key} :
         Result(Lookup(root', k)) = Result(Lookup(root, k))]_vars

\* the permutations of 1..n
Perms(n) == {p \in [1..n -> 1..n] : \A i, j \in 1..n : i # j => p[i] # p[j]}

\* the empty tree of the current mode
EmptyTree == IF mode = "stateful" THEN newInternalNode(0) ELSE NewStateless

RECURSIVE BuildFrom(_, _)
\* the tree after the inserts of calls, in order, into n
BuildFrom(n, calls) ==
  IF calls = <<>> THEN n
  ELSE LET k == Head(calls)[1]
           v == Head(calls)[2]
       IN BuildFrom(IF mode = "stateful" THEN TreeInsert(n, k, v).node
                    ELSE Insert(n, k, v, Resolver(BackingStore, TRUE)).node,
                    Tail(calls))

\* the tree once its commitments are computed, and its root commitment
Committed(n) ==
  IF mode = "stateful"
  THEN LET c == ComputeCommitment(n) IN [node |-> c.node, point |-> c.point]
  ELSE Commit(n)

\* the key-to-value map of a tree: what Get returns for each key
KeyValueMap(n) == [k \in KeysOf(mode) |-> Result(Lookup(n, k))]

\* the sequences of inserts that are log.calls in another order and produce
\* the same key-to-value map
Reorderings ==
  {seq \in {[i \in DOMAIN log.calls |-> log.calls[p[i]]] : p \in Perms(Len(log.calls))} :
     seq # log.calls /\ KeyValueMap(BuildFrom(EmptyTree, seq)) = KeyValueMap(root)}

\* C7: the order of the inserts does not matter: on a tree that starts
\* empty, a sequence of Insert calls and the same calls in another order
\* that produces the same key-to-value map yield trees with the same
\* structure and the same root commitment.
C7_InsertionOrderIndependent ==
  (log.on /\ mode \in {"fresh", "stateful"}) =>
    \A seq \in Reorderings : Committed(BuildFrom(EmptyTree, seq)) = Committed(root)

\* three inserts of values that are not empty, at three keys, two of them
\* under stems that share their first byte, so that a leaf was moved under a
\* new intermediate node; the inserts can be reordered
C7_Witness ==
  /\ log.on /\ mode = "fresh" /\ Len(log.calls) = 3
  /\ \A i \in DOMAIN log.calls : BLen(log.calls[i][2]) # 0
  /\ \A i, j \in DOMAIN log.calls : i # j => log.calls[i][1] # log.calls[j][1]
  /\ root.count > 0
  /\ Reorderings # {}

RECURSIVE ClearCaches(_)
\* the stateful tree without its cached commitments
ClearCaches(n) ==
  CASE n.kind = "InternalNode" ->
         [n EXCEPT !.commitment = NoPoint,
                   !.children = [i \in DOMAIN @ |-> ClearCaches(@[i])]]
    [] n.kind = "accountLeaf" -> [n EXCEPT !.commitment = NoPoint]
    [] OTHER -> n

\* the commitment of an InternalNode recomputed from its current children;
\* NoPoint when the computation panics
Recomputed(n) == ComputeCommitment(ClearCaches(n)).point

RECURSIVE CachesConsistent(_)
\* every InternalNode of the tree that has a cached commitment has the one
\* recomputed from its children
CachesConsistent(n) ==
  n.kind = "InternalNode" =>
    /\ n.commitment # NoPoint => n.commitment = Recomputed(n)
    /\ \A i \in DOMAIN n.children : CachesConsistent(n.children[i])

\* C8: cache consistency of the stateful tree: after any sequence of Insert,
\* InsertOrdered, CreateAccount, Flush and ComputeCommitment calls, every
\* InternalNode whose cached commitment is not nil has a cached commitment
\* equal to the one recomputed from its current children.
C8_CachedCommitmentsAreCurrent ==
  mode = "stateful" => CachesConsistent(root)

\* the node behind a slot of the tree as it was when the batch began: the
\* child, or the node its commitment stands for in the backing store
BaseChild(b, i) ==
  LET parsed(comm) == IF comm \in DOMAIN BackingStore
                      THEN ParseStatelessNode(BackingStore[comm], b.depth + 1, comm)
                      ELSE Empty
  IN IF b.kind # "StatelessNode" THEN Empty
     ELSE IF ~ChildIsNil(b, i)
     THEN IF b.children[i].kind = "HashedNode" THEN parsed(b.children[i].commitment)
          ELSE b.children[i]
     ELSE IF i \in DOMAIN b.unresolved THEN parsed(b.unresolved[i])
     ELSE Empty

\* the commitment slot i had when the batch began; the identity for a node
\* that was not there
BaseSlot(b, i) == IF b.kind = "StatelessNode" THEN SlotCommitment(b, i) ELSE Identity

RECURSIVE CowHolds(_, _)
\* every cow entry of the stateless nodes of n is the commitment its slot
\* had in b, the same place of the tree when the batch began
CowHolds(n, b) ==
  n.kind = "StatelessNode" =>
    /\ \A i \in DOMAIN n.cow : n.cow[i] = BaseSlot(b, i)
    /\ \A i \in DOMAIN n.children : CowHolds(n.children[i], BaseChild(b, i))

\* C9: for a stateless internal node, whenever cow[i] is set it holds the
\* commitment that child i had before the first mutation of that child
\* since the last Commit, the identity when the child was created from an
\* empty slot in this batch; later touches and later mutations of the child
\* do not change it.
C9_CowHoldsCommitmentBeforeBatch ==
  mode \in StatelessModes => CowHolds(root, base)

\* C10: Commit is idempotent: StatelessNode.Commit applies the pending
\* deltas and clears cow, so a second Commit with no mutation in between
\* leaves the tree and its commitment as they are and returns the same
\* point; and a second InternalNode.ComputeCommitment with no mutation in
\* between returns the same point.
C10_CommitIdempotent ==
  /\ (mode \in StatelessModes /\ ret.op = "Commit") =>
       /\ DOMAIN root.cow = {}
       /\ Commit(root) = [node |-> root, point |-> ret.point]
  /\ (mode = "stateful" /\ ret.op = "ComputeCommitment" /\ ret.err = "ok") =>
       ComputeCommitment(root) = [node |-> root, point |-> ret.point, err |-> "ok"]

\* a Commit that applied pending deltas: the root commitment is no longer
\* the one the batch began with, here the identity of the empty tree
C10_Witness ==
  /\ mode = "fresh" /\ ret.op = "Commit"
  /\ DOMAIN root.children # {}
  /\ ret.point # Identity

\* whether a node of either tree is a leaf, and the stem of a leaf
IsLeaf(n) ==
  \/ n.kind \in {"leafNode", "accountLeaf", "LeafNode"}
  \/ n.kind = "StatelessNode" /\ n.isLeaf

LeafStem(n) == IF n.kind \in {"leafNode", "accountLeaf"} THEN StemOf(n.key) ELSE n.stem

\* whether a node of either tree is an internal node
IsInternal(n) ==
  \/ n.kind = "InternalNode"
  \/ n.kind = "StatelessNode" /\ ~n.isLeaf

RECURSIVE ConcatOver(_, _)
\* the concatenation of the sequences f[i], for i in S in ascending order
ConcatOver(f, S) ==
  IF S = {} THEN <<>>
  ELSE LET i == CHOOSE x \in S : \A y \in S : x <= y
       IN f[i] \o ConcatOver(f, S \ {i})

RECURSIVE LeafStems(_)
\* the stems of the leaves of a tree, one entry per leaf
LeafStems(n) ==
  IF IsLeaf(n) THEN << LeafStem(n) >>
  ELSE IF IsInternal(n)
  THEN ConcatOver([i \in DOMAIN n.children |-> LeafStems(n.children[i])], DOMAIN n.children)
  ELSE <<>>

\* C11: after any sequence of inserts, a tree never contains two leaves
\* whose stems are equal: all the keys that share a stem are in one leaf.
C11_OneLeafPerStem ==
  log.on =>
    \A i, j \in DOMAIN LeafStems(root) : i # j => LeafStems(root)[i] # LeafStems(root)[j]

\* keys of four bytes, so that two stems share up to two leading bytes
SplitKeys == { <<0, 0, 0, 0>>, <<0, 0, 0, 1>>, <<0, 0, 1, 0>>, <<0, 1, 0, 0>>, <<1, 0, 0, 0>> }

SplitInit == Init /\ mode \in {"fresh", "stateful"}

SplitNext ==
  \/ \E k \in SplitKeys, v \in Values : DoInsert(k, v, TRUE)
  \/ \E k \in SplitKeys, v \in Values : DoTreeInsert(k, v)

\* the trees that start empty, under inserts of keys with three-byte stems
SplitSpec == SplitInit /\ [][SplitNext]_vars

ChildOf(n, i) == IF i \in DOMAIN n.children THEN n.children[i] ELSE Empty

LiveChildren(n) == {i \in DOMAIN n.children : IsLeaf(n.children[i]) \/ IsInternal(n.children[i])
                                              \/ n.children[i].kind \in {"HashedNode", "hashedNode"}}

RECURSIVE NodeAt(_, _, _)
\* the node that the path of key reaches after j bytes
NodeAt(n, key, j) ==
  IF j = 0 THEN n
  ELSE LET p == NodeAt(n, key, j - 1)
       IN IF IsInternal(p) THEN ChildOf(p, key[j]) ELSE Empty

RECURSIVE EndDepth(_, _, _)
\* the byte depth, from j on, of the first node on the path of key that is
\* not an internal node
EndDepth(n, key, j) ==
  IF j >= Len(key) \/ ~IsInternal(NodeAt(n, key, j)) THEN j ELSE EndDepth(n, key, j + 1)

RECURSIVE CommonPrefix(_, _)
\* the number of leading bytes two byte strings share
CommonPrefix(a, b) ==
  IF a = <<>> \/ b = <<>> \/ Head(a) # Head(b) THEN 0
  ELSE 1 + CommonPrefix(Tail(a), Tail(b))

RECURSIVE InternalCount(_)
\* the number of internal nodes of a tree
InternalCount(n) ==
  IF IsInternal(n)
  THEN 1 + Len(ConcatOver([i \in DOMAIN n.children |->
                             [x \in 1..InternalCount(n.children[i]) |-> 0]], DOMAIN n.children))
  ELSE 0

\* the same leaf, wherever it is in the tree
SameLeaf(a, b) ==
  /\ IsLeaf(a) /\ IsLeaf(b)
  /\ LeafStem(a) = LeafStem(b)
  /\ IF a.kind = "leafNode" THEN a = b ELSE a.kind = b.kind /\ a.values = b.values

\* the shape the tree has after a split of the leaf old, met at byte depth d
\* on the path of key, whose stem shares m leading bytes with the stem of key
SplitShape(before, after, key, old, d, m) ==
  /\ \A j \in 0..m : IsInternal(NodeAt(after, key, j))
  /\ \A j \in d..(m - 1) : Cardinality(LiveChildren(NodeAt(after, key, j))) = 1
  /\ Cardinality(LiveChildren(NodeAt(after, key, m))) = 2
  /\ LeafStem(old)[m + 1] # key[m + 1]
  /\ SameLeaf(NodeAt(after, LeafStem(old), m + 1), old)
  /\ IsLeaf(NodeAt(after, key, m + 1))
  /\ LeafStem(NodeAt(after, key, m + 1)) = StemOf(key)
  /\ InternalCount(after) = InternalCount(before) + (m - d) + 1
  /\ Len(LeafStems(after)) = Len(LeafStems(before)) + 1

EndsAtEmpty(n, key) ==
  LET d == EndDepth(n, key, 0)
      e == NodeAt(n, key, d)
      parent == NodeAt(n, key, d - 1)
  IN /\ d >= 1
     /\ IF parent.kind = "StatelessNode"
        THEN e.kind \in {"Empty", "nil"} /\ BLen(MapGet(parent.unresolved, key[d], NilBytes)) = 0
        ELSE TChild(parent, key[d]).kind = "empty"

\* whether the path of key in the tree n ends at a hashed child
EndsAtHashed(n, key) ==
  LET d == EndDepth(n, key, 0)
  IN d >= 1 /\ NodeAt(n, key, d).kind \in {"HashedNode", "hashedNode"}

\* C13: Get of a key whose path ends at an Empty child returns no value and
\* no error, and Get of a key whose path ends at a Hashed child fails with
\* an error; for InternalNode.Get and for StatelessNode.Get.
C13_GetAtEmptyAndAtHashed ==
  ret.op = "Get" =>
    /\ EndsAtEmpty(root, ret.key) => ret.val = NilBytes /\ ret.err = "ok"
    /\ EndsAtHashed(root, ret.key) => ret.err \notin {"ok", "panic"}

RECURSIVE Shape(_)
\* a stateful tree without the cached commitments of its internal nodes:
\* the children of every node and the content of every leaf
Shape(n) ==
  IF n.kind = "InternalNode"
  THEN [kind |-> "InternalNode", depth |-> n.depth,
        children |-> [i \in LiveChildren(n) |-> Shape(n.children[i])]]
  ELSE n

\* C14: an Insert or InsertOrdered on the stateful tree whose path reaches
\* a hashedNode returns InsertIntoHash, and leaves the children of every
\* node and the value of every leaf unchanged.
C14_InsertIntoHashChangesNothing ==
  [][(mode = "stateful" /\ ret'.op \in {"Insert", "InsertOrdered"}
      /\ EndsAtHashed(root, ret'.key))
     => ret'.err = "InsertIntoHash" /\ Shape(root') = Shape(root)]_vars

\* an insert was refused at a hashedNode that is below a child of the root
C14_Witness ==
  /\ mode = "stateful" /\ ret.op \in {"Insert", "InsertOrdered"}
  /\ ret.err = "InsertIntoHash"
  /\ EndsAtHashed(root, ret.key)
  /\ EndDepth(root, ret.key, 0) >= 2

\* the keys written since the tree was made, while every call was an insert
\* that succeeded
Written == {log.calls[i][1] : i \in DOMAIN log.calls}

\* C15: Delete(k) is Insert(k, 32 zero bytes): after Delete(k) succeeds,
\* Get(k) returns 32 zero bytes, whether or not k was written before, while
\* Get of a key never written returns the absent value, so that the two
\* can be told apart.
C15_DeleteWritesZeroes ==
  /\ (mode \in StatelessModes /\ ret.op = "Delete" /\ ret.err = "ok")
       => Result(Lookup(root, ret.key)) = [val |-> Zero32, ok |-> TRUE]
  /\ (mode = "fresh" /\ log.on)
       => \A k \in Keys \ Written : Result(Lookup(root, k)) = [val |-> NilBytes, ok |-> TRUE]

\* the runs of GetProofItems on the tree, one for each order in which the
\* runtime may range over the values maps
ProofRuns == {GetProofItems(root, <<>>, highFirst) : highFirst \in SUBSET ProofStems}

\* C16: proof extraction is deterministic: for a fixed stateless tree, two
\* runs of GetProofItems return the same Cis, Zis, Yis and ByPath, whatever
\* the order in which the runtime iterates the children and values maps.
C16_ProofExtractionDeterministic ==
  \A r1, r2 \in ProofRuns : r1 = r2

\* the leaf of the stem of the proof, at slot 3 of the root
LeafOfProof == root.children[3]

\* the first n entries of a sequence
Prefix(seq, n) == SubSeq(seq, 1, n)

\* the openings of the extension level that the leaf n is to emit: the
\* marker, the stem, C1 when a suffix below 128 is stored, C2 when a suffix
\* from 128 on is stored
ExtensionOpenings(n) ==
  LET low == \E x \in DOMAIN n.values : x < 128
      high == \E x \in DOMAIN n.values : x >= 128
  IN [Cis |-> << n.commitment, n.commitment >> \o (IF low THEN << n.commitment >> ELSE <<>>)
                \o (IF high THEN << n.commitment >> ELSE <<>>),
      Zis |-> << 0, 1 >> \o (IF low THEN << 2 >> ELSE <<>>) \o (IF high THEN << 3 >> ELSE <<>>),
      Yis |-> << 1, StemFromBytes(n.stem) >> \o (IF low THEN << toFr(n.c1) >> ELSE <<>>)
                \o (IF high THEN << toFr(n.c2) >> ELSE <<>>)]

\* C17: for a stateless leaf, GetProofItems emits (C, 0, 1) and
\* (C, 1, stem) first, then (C, 2, to_fr(C1)) exactly when a stored suffix
\* is below 128, then (C, 3, to_fr(C2)) exactly when a stored suffix is 128
\* or more.
C17_ExtensionLevelOpenings ==
  (LeafOfProof.kind = "StatelessNode" /\ LeafOfProof.isLeaf /\ DOMAIN LeafOfProof.values # {})
  => \A highFirst \in SUBSET ProofStems :
       LET r == GetProofItems(LeafOfProof, <<3>>, highFirst)
           e == ExtensionOpenings(LeafOfProof)
           k == Len(e.Cis)
       IN r.err = "ok" =>
            /\ Len(r.pe.Cis) >= k
            /\ Prefix(r.pe.Cis, k) = e.Cis
            /\ Prefix(r.pe.Zis, k) = e.Zis
            /\ Prefix(r.pe.Yis, k) = e.Yis
            /\ Len(r.pe.Cis) = k + 2 * Cardinality(DOMAIN LeafOfProof.values)

\* the internal nodes of the tree, each with its path: the root and the
\* children of the root that are internal nodes
InternalNodesOf(n) ==
  { << <<>>, n >> } \cup
  { << <<i>>, n.children[i] >> : i \in {j \in DOMAIN n.children :
                                         /\ n.children[j].kind = "StatelessNode"
                                         /\ DOMAIN n.children[j].values = {}} }

\* the indices of S in ascending order
RECURSIVE Ascending(_)
Ascending(S) ==
  IF S = {} THEN <<>>
  ELSE LET i == CHOOSE x \in S : \A y \in S : x <= y IN << i >> \o Ascending(S \ {i})

\* what the claim says of the run r of GetProofItems on the internal node n
\* at path: one opening per key of children, ascending, then the openings
\* of the children that are StatelessNodes, ascending
InternalOpenings(n, path, highFirst, r) ==
  LET keys == Ascending(DOMAIN n.children)
      k == Len(keys)
      below == {i \in DOMAIN n.children : n.children[i].kind = "StatelessNode"}
      sub(i) == GetProofItems(n.children[i], Append(path, i), highFirst).pe
  IN /\ r.err = "ok"
     /\ Len(r.pe.Cis) >= k
     /\ Prefix(r.pe.Zis, k) = keys
     /\ \A j \in 1..k :
          /\ r.pe.Cis[j] = n.commitment
          /\ r.pe.Yis[j] = IF n.children[keys[j]].kind \in {"nil", "Empty"} THEN 0
                           ELSE toFr(Commitment(n.children[keys[j]]))
          /\ Append(path, keys[j]) \in DOMAIN r.pe.ByPath
          /\ r.pe.ByPath[Append(path, keys[j])] = n.commitment
     /\ SubSeq(r.pe.Cis, k + 1, Len(r.pe.Cis)) = ConcatOver([i \in below |-> sub(i).Cis], below)
     /\ SubSeq(r.pe.Zis, k + 1, Len(r.pe.Zis)) = ConcatOver([i \in below |-> sub(i).Zis], below)
     /\ SubSeq(r.pe.Yis, k + 1, Len(r.pe.Yis)) = ConcatOver([i \in below |-> sub(i).Yis], below)

\* C18: for a stateless internal node, GetProofItems emits one opening per
\* key present in children, in strictly ascending order of the keys, each
\* (the commitment of the node, idx, to_fr of the commitment of the child),
\* with the evaluation 0 when the child is empty; it registers
\* ByPath[path ++ idx] as the commitment of the node, and recurses only
\* into the children that are StatelessNodes, in the same ascending order,
\* skipping the Hashed and the empty children.
C18_InternalNodeOpenings ==
  \A pn \in InternalNodesOf(root) : \A highFirst \in SUBSET ProofStems :
    InternalOpenings(pn[2], pn[1], highFirst, GetProofItems(pn[2], pn[1], highFirst))

\* the last n entries of a sequence
Suffix(seq, n) == SubSeq(seq, Len(seq) - n + 1, Len(seq))

\* the sub-commitment of the half of the suffix s
SubCommitmentOf(n, s) == IF s >= 128 THEN n.c2 ELSE n.c1

\* what the claim says of the run r of GetProofItems on the leaf n at path
SlotOpenings(n, path, r) ==
  LET present == Ascending({s \in DOMAIN n.values : SubCommitmentOf(n, s) # NoPoint})
      k == Len(present)
      head == Len(r.pe.Cis) - 2 * k
      cis == Suffix(r.pe.Cis, 2 * k)
      zis == Suffix(r.pe.Zis, 2 * k)
      yis == Suffix(r.pe.Yis, 2 * k)
  IN /\ head \in 2..4
     /\ \A j \in 1..head : r.pe.Cis[j] = n.commitment /\ r.pe.Zis[j] \in 0..3
     /\ \A j \in 1..k :
          LET s == present[j]
              Cs == SubCommitmentOf(n, s)
          IN /\ cis[2 * j - 1] = Cs /\ cis[2 * j] = Cs
             /\ zis[2 * j - 1] = (2 * s) % 256 /\ zis[2 * j] = (2 * s + 1) % 256
             /\ zis[2 * j - 1] = 2 * (s % 128) /\ zis[2 * j] = 2 * (s % 128) + 1
             /\ IF n.values[s] = NilBytes
                THEN yis[2 * j - 1] = 0 /\ yis[2 * j] = 0
                ELSE << yis[2 * j - 1], yis[2 * j] >> = leafToComms(n.values[s])
             /\ Append(path, 2 + (s \div 128)) \in DOMAIN r.pe.ByPath
             /\ r.pe.ByPath[Append(path, 2 + (s \div 128))] = Cs

\* C19: for every stored suffix s of a stateless leaf whose sub-commitment
\* Cs is present, GetProofItems emits, in ascending order of the suffixes,
\* exactly two openings on Cs, whose evaluation points are the byte values
\* of 2s and 2s+1, which are the positions 2(s mod 128) and 2(s mod 128)+1
\* that the update of the leaf uses as SRS indices; the evaluations are
\* (0, 0) when the value is absent and leaf_to_comms(value) otherwise, and
\* ByPath[path ++ (2 + s/128)] is Cs.
C19_ValueSlotOpenings ==
  (LeafOfProof.kind = "StatelessNode" /\ LeafOfProof.isLeaf /\ DOMAIN LeafOfProof.values # {})
  => \A highFirst \in SUBSET ProofStems :
       LET r == GetProofItems(LeafOfProof, <<3>>, highFirst)
       IN r.err = "ok" /\ SlotOpenings(LeafOfProof, <<3>>, r)

\* GetProofItems returned the openings of a leaf that holds a value at the
\* suffix 129, whose evaluation points wrap, and an absent value
C19_Witness ==
  /\ ret.op = "GetProofItems" /\ ret.err = "ok"
  /\ LeafOfProof.isLeaf
  /\ 129 \in DOMAIN LeafOfProof.values /\ LeafOfProof.values[129] # NilBytes
  /\ 0 \in DOMAIN LeafOfProof.values /\ LeafOfProof.values[0] = NilBytes
  /\ \E j \in DOMAIN ret.pe.Cis : ret.pe.Cis[j] = LeafOfProof.c2 /\ ret.pe.Zis[j] = 3
                                  /\ ret.pe.Yis[j] = leafToComms(<<1>>)[2]

RECURSIVE LeavesOf(_, _)
\* the leaves of a stateless tree below materialised internal nodes, each
\* with its path
LeavesOf(n, path) ==
  IF IsLeaf(n) THEN { << path, n >> }
  ELSE IF n.kind = "StatelessNode"
  THEN UNION {LeavesOf(n.children[i], Append(path, i)) : i \in DOMAIN n.children}
  ELSE {}

\* whether the path a is a proper prefix of the path b
ProperPrefix(a, b) == Len(a) < Len(b) /\ SubSeq(b, 1, Len(a)) = a

\* whether the node delivered as a is, by its hash, a child of the node
\* delivered as b by the stateful tree
HashedChildOf(a, b) ==
  /\ b.node.kind = "InternalNode"
  /\ \E i \in DOMAIN b.node.children :
       b.node.children[i].kind = "hashedNode" /\ b.node.children[i].hash = a.hash

\* C20: Flush invokes the flush callback (or sends on the channel) in
\* post-order: every node is delivered after all the nodes of its subtree
\* that are delivered, the node that Flush was called on is delivered last,
\* and in a stateless tree every leaf child (LeafNode or leaf-mode
\* StatelessNode) under a resolved path is delivered.
C20_FlushInPostOrder ==
  (ret.op = "Flush" /\ ret.err = "ok") =>
    LET sent == ret.sent
    IN /\ sent # <<>>
       /\ sent[Len(sent)].node = root
       /\ IF mode = "stateful"
          THEN \A i, j \in DOMAIN sent : HashedChildOf(sent[i], sent[j]) => i < j
          ELSE /\ sent[Len(sent)].path = <<>>
               /\ \A i, j \in DOMAIN sent : ProperPrefix(sent[j].path, sent[i].path) => i < j
               /\ \A i \in DOMAIN sent : \A j \in 0..Len(sent[i].path) :
                    j < Len(sent[i].path) => IsInternal(NodeAt(root, sent[i].path, j))
               /\ \A i \in DOMAIN sent : sent[i].node = NodeAt(root, sent[i].path, Len(sent[i].path))
               /\ \A l \in LeavesOf(root, <<>>) :
                    \E i \in DOMAIN sent : sent[i] = Delivered(l[1], l[2])

\* a stateless Flush delivered two leaves below an internal node, that
\* node and the root
C20_Witness ==
  /\ mode \in StatelessModes /\ ret.op = "Flush"
  /\ \E i, j, k \in DOMAIN ret.sent :
       /\ i < j /\ j < k /\ k < Len(ret.sent)
       /\ IsLeaf(ret.sent[i].node) /\ IsLeaf(ret.sent[j].node)
       /\ IsInternal(ret.sent[k].node)
       /\ ProperPrefix(ret.sent[k].path, ret.sent[i].path)
       /\ ProperPrefix(ret.sent[k].path, ret.sent[j].path)

\* the slots of an internal node that hold a child or an unresolved entry
SetSlots(n) == {i \in 0..(NodeWidth - 1) : ~ChildIsNil(n, i) \/ i \in DOMAIN n.unresolved}

\* C21: Serialize of an internal stateless node, in every reachable state,
\* one built by insertStem with an absent-empty stem included, returns the
\* internal tag, a bitlist whose bit i is set exactly when slot i has a
\* child or an unresolved entry (a slot marked absent counts as Empty, its
\* bit clear), and the commitments of the set slots in ascending order.
C21_SerializeInternal ==
  \A pn \in InternalNodesOf(root) :
    LET n == pn[2]
        r == Serialize(n)
    IN /\ r.err = "ok"
       /\ r.out.type = "internal"
       /\ r.out.bitlist = SetSlots(n)
       /\ r.out.body = ConcatOver([i \in SetSlots(n) |-> << PointBytes(SlotCommitment(n, i)) >>],
                                  SetSlots(n))

\* the stateless nodes of the tree that act as a leaf (their values are set)
RECURSIVE StatelessLeavesOf(_)
StatelessLeavesOf(n) ==
  IF n.kind # "StatelessNode" THEN {}
  ELSE IF n.isLeaf THEN {n}
  ELSE UNION {StatelessLeavesOf(n.children[i]) : i \in DOMAIN n.children}

\* the slots of a leaf that hold a value
ValueSlots(n) == {i \in DOMAIN n.values : n.values[i] # NilBytes}

\* C22: Serialize of a stateless node that acts as a leaf returns the leaf
\* framing (leaf tag, stem, bitlist with bit i set exactly for the slots
\* holding a value, the values ascending, each padded with zeros to 32
\* bytes) when all 256 slots are loaded, and NotSupportedInStateless without
\* output when some slot is not loaded; never the internal framing.
C22_SerializeLeaf ==
  \A n \in StatelessLeavesOf(root) :
    LET r == Serialize(n)
    IN /\ r.out.type # "internal"
       /\ IF \A i \in 0..(NodeWidth - 1) : i \in DOMAIN n.values
          THEN /\ r.err = "ok"
               /\ r.out.type = "leaf"
               /\ r.out.stem = n.stem
               /\ r.out.bitlist = ValueSlots(n)
               /\ r.out.body = ConcatOver([i \in ValueSlots(n) |-> << Pad32(n.values[i]) >>],
                                          ValueSlots(n))
          ELSE r.err = "NotSupportedInStateless" /\ r.out = NoOutput

RECURSIVE ReachedLeaf(_, _)
\* the stateless leaf that the key leads to below n, or n itself if it is
\* one; nil if the path of the key ends elsewhere
ReachedLeaf(n, key) ==
  IF n.kind # "StatelessNode" THEN GoNil
  ELSE IF n.isLeaf THEN n
  ELSE IF n.depth >= Len(key) \/ ChildIsNil(n, offset2key(key, n.depth)) THEN GoNil
  ELSE ReachedLeaf(n.children[offset2key(key, n.depth)], key)

\* the node a call of insertValue started from
StartNode(n, key, start) == IF start = 0 THEN n ELSE n.children[offset2key(key, 0)]

\* C23: insertValue(key, value) called on any node of a tree rebuilt from a
\* proof returns InsertIntoOtherStem whenever the leaf that the key leads to
\* has a stem other than that of the key, at every depth of the leaf below
\* the node of the call, and then no value is written.
C23_InsertIntoOtherStem ==
  [][(ret'.op = "insertValue"
       /\ ReachedLeaf(StartNode(root, ret'.key, ret'.start), ret'.key) # GoNil
       /\ ReachedLeaf(StartNode(root, ret'.key, ret'.start), ret'.key).stem # StemOf(ret'.key))
     => (ret'.err = "InsertIntoOtherStem" /\ root' = root)]_vars

RECURSIVE MeetsEmpty(_, _)
\* the path of the key below the stateless internal node n meets an empty
\* child
MeetsEmpty(n, key) ==
  /\ n.kind = "StatelessNode" /\ DOMAIN n.children # {} /\ n.depth < Len(key)
  /\ \/ ChildIsNil(n, offset2key(key, n.depth))
     \/ MeetsEmpty(n.children[offset2key(key, n.depth)], key)

\* C24: insertValue with a non-empty value on a path that meets an empty
\* child (a proof of absence) returns an error to the caller and leaves the
\* tree unchanged; with an empty value it returns success and leaves the
\* tree unchanged.
C24_InsertValueAtAbsence ==
  [][(ret'.op = "insertValue" /\ MeetsEmpty(StartNode(root, ret'.key, ret'.start), ret'.key))
     => /\ root' = root
        /\ IF BLen(ret'.arg) # 0 THEN ret'.err \notin {"ok", "panic"} ELSE ret'.err = "ok"]_vars

RECURSIVE MeetsStateful(_, _)
\* the path of the key below the stateless internal node n meets a child of
\* the stateful family
MeetsStateful(n, key) ==
  /\ n.kind = "StatelessNode" /\ DOMAIN n.children # {} /\ n.depth < Len(key)
  /\ ~ChildIsNil(n, offset2key(key, n.depth))
  /\ \/ n.children[offset2key(key, n.depth)].kind \in {"LeafNode", "InternalNode"}
     \/ MeetsStateful(n.children[offset2key(key, n.depth)], key)

\* C25: a stateless operation that finds a node of the stateful family where
\* a stateless node is required, a LeafNode or InternalNode child installed
\* by an earlier InsertAtStem included, reports StatelessAndStatefulMix; it
\* does not crash and returns no other error. Stated of insertValue.
C25_MixIsReported ==
  [][(ret'.op = "insertValue" /\ MeetsStateful(StartNode(root, ret'.key, ret'.start), ret'.key))
     => ret'.err = "StatelessAndStatefulMix"]_vars

RECURSIVE HasHashedSubtree(_)
\* some child below n was replaced by InsertOrdered with the hash and the
\* commitment of a finished subtree
HasHashedSubtree(n) ==
  /\ n.kind = "InternalNode"
  /\ \E i \in DOMAIN n.children :
       \/ n.children[i].kind = "hashedNode" /\ n.children[i].commitment # NoPoint
       \/ HasHashedSubtree(n.children[i])

\* C26: for every sequence of key/value pairs in strictly ascending key
\* order, the tree built with InsertOrdered has the same root commitment and
\* the same root hash as the tree built with Insert, and neither build
\* fails.
C26_InsertOrderedEqualsInsert ==
  /\ ret.err = "ok"
  /\ ComputeCommitment(root).err = "ok" /\ ComputeCommitment(base).err = "ok"
  /\ ComputeCommitment(root).point = ComputeCommitment(base).point
  /\ TreeHash(root).hash = TreeHash(base).hash

\* three pairs inserted, a finished internal subtree replaced by a hashed
\* node, and so the two trees differ
C26_Witness ==
  /\ ret.op = "InsertOrdered" /\ steps >= 3
  /\ HasHashedSubtree(root)
  /\ root # base

\* the change of a sub-commitment as updateC adds it to the commitment of
\* the leaf, for the half that index is in
TopDelta(pre, post, index) ==
  LET c == SubCommitmentOf(post, index)
      oldc == SubCommitmentOf(pre, index)
  IN IF c = oldc THEN Identity
     ELSE ScalarMul(SRS(2 + (index \div 128)), FrSub(toFr(c), toFr(oldc)))

RECURSIVE OrderAt(_, _, _)
\* what the order of the steps of InsertAtStem leaves behind, at the node
\* that was pre before the call and is post after it, and below it on the
\* path of the stem. In a leaf: the commitment has taken the change of the
\* sub-commitments as they are after the whole batch. In an internal node:
\* the child on the path is resolved; the cow entry of the child, if the
\* call made it, is the commitment the child had before it was changed;
\* and the commitment of the node itself has not changed.
OrderAt(pre, post, stem) ==
  IF pre.isLeaf
  THEN post.commitment =
         PointAdd(PointAdd(pre.commitment, TopDelta(pre, post, 0)), TopDelta(pre, post, 128))
  ELSE LET nChild == offset2key(stem, pre.depth)
       IN /\ ~ChildIsNil(post, nChild)
          /\ post.children[nChild].kind \notin {"HashedNode", "Empty"}
          /\ nChild \in DOMAIN post.cow
          /\ post.cow[nChild] = IF nChild \in DOMAIN pre.cow THEN pre.cow[nChild]
                                ELSE BaseSlot(pre, nChild)
          /\ post.commitment = pre.commitment
          /\ BaseChild(pre, nChild).kind = "StatelessNode"
               => OrderAt(BaseChild(pre, nChild), post.children[nChild], stem)

LeafAgrees(n) ==
  /\ n.c1 = SubCommitment(n.values, 0)
  /\ n.c2 = SubCommitment(n.values, 128)
  /\ n.commitment = LeafCommitment(n.stem, n.c1, n.c2)

\* the slots of the batch whose value is not empty and differs from the
\* value stored in n
ChangedBy(n, values) ==
  {i \in DOMAIN values :
     BLen(values[i]) # 0 /\ ~BytesEqual(values[i], MapGet(n.values, i, NilBytes))}

\* C28: for a stateless leaf whose C1, C2 and commitment agree with its
\* values, after a batch of updateMultipleLeaves (and so after any sequence
\* of batches) C1 is the sub-commitment of the slots 0..127, C2 that of the
\* slots 128..255, and the commitment is the leaf formula with to_fr(C1) at
\* slot 2 and to_fr(C2) at slot 3; only the slots whose incoming value is
\* not empty and differs from the stored value are changed.
C28_LeafCommitmentsFollowValues ==
  [][(/\ ret'.op = "InsertAtStem" /\ ret'.err = "ok" /\ mode = "proof"
      /\ ret'.key = root.children[3].stem
      /\ root.children[3].kind = "StatelessNode" /\ root.children[3].isLeaf
      /\ LeafAgrees(root.children[3]))
     => LET pre == root.children[3]
            post == root'.children[3]
            changed == ChangedBy(pre, ret'.batch)
        IN /\ LeafAgrees(post)
           /\ DOMAIN post.values = DOMAIN pre.values \cup changed
           /\ \A i \in DOMAIN post.values :
                post.values[i] = IF i \in changed THEN ret'.batch[i] ELSE pre.values[i]]_vars

\* after two batches a leaf that agreed at the start holds new values in
\* both halves, one slot of the last batch was left as it was, and the leaf
\* agrees
C28_Witness ==
  /\ ret.op = "InsertAtStem" /\ ret.err = "ok" /\ ret.key = <<3, 0>> /\ steps = 2
  /\ DOMAIN ret.batch = {0, 1}
  /\ root.children[3].kind = "StatelessNode"
  /\ DOMAIN root.children[3].values = {0, 1, 128}
  /\ root.children[3].values[128] = <<2>>
  /\ root.children[3].values[0] = <<1>> /\ root.children[3].values[1] = <<1>>
  /\ LeafAgrees(root.children[3])

RECURSIVE StatelessNodesOf(_)
\* the stateless nodes of a tree
StatelessNodesOf(n) ==
  IF n.kind # "StatelessNode" THEN {}
  ELSE {n} \cup UNION {StatelessNodesOf(n.children[i]) : i \in DOMAIN n.children}

\* the leaf tests of the operations: values # nil (Get, InsertAtStem,
\* Flush), len(children) = 0 (insertValue), len(values) # 0 (Commit,
\* GetProofItems), children = nil (Serialize, Copy)
LeafTests(n) ==
  { n.isLeaf, DOMAIN n.children = {}, DOMAIN n.values # {}, ~n.isInternal }

\* C29: every stateless node is in exactly one mode in every reachable
\* state, internal (children set, values nil) or leaf (values set, children
\* nil), whether built by NewStateless, insertStem or InsertAtStem, so that
\* the leaf tests of Get, InsertAtStem, insertValue, Commit, GetProofItems,
\* Serialize, Copy and Flush agree on the mode of the node.
C29_OneModePerNode ==
  \A n \in StatelessNodesOf(root) :
    /\ n.isInternal # n.isLeaf
    /\ Cardinality(LeafTests(n)) = 1

\* C30: StatelessNode.Copy returns a faithful copy: it returns, Get of
\* every key on the copy gives what Get on the original gives, for internal
\* nodes and for leaves, and the copy has the commitment of the original.
C30_CopyIsFaithful ==
  [][ret'.op = "Copy"
     => /\ ret'.err = "ok"
        /\ root'.commitment = root.commitment
        /\ \A k \in ProofKeys, up \in BOOLEAN :
             LET a == Get(root, k, Resolver(BackingStore, up))
                 b == Get(root', k, Resolver(BackingStore, up))
             IN a.err = b.err /\ BytesEqual(a.val, b.val)]_vars

RECURSIVE AccountsOf(_)
\* the accounts stored in a stateful tree: the key and the fields of every
\* accountLeaf that has a key
AccountsOf(n) ==
  CASE n.kind = "accountLeaf" ->
         IF n.key = NilBytes THEN {}
         ELSE {[key |-> n.key, Version |-> n.Version, Balance |-> n.Balance,
                Nonce |-> n.Nonce, CodeSize |-> n.CodeSize, CodeHash |-> n.CodeHash]}
    [] n.kind = "InternalNode" -> UNION {AccountsOf(n.children[i]) : i \in DOMAIN n.children}
    [] OTHER -> {}

RECURSIVE CreatePathClear(_, _)
\* the path of the key below n ends at an empty slot or at the account of
\* another key, with InternalNodes only on the way
CreatePathClear(n, key) ==
  /\ n.kind = "InternalNode" /\ ~OffsetPastKey(key, n.depth)
  /\ LET child == TChild(n, offset2Key(key, n.depth, TreeWidth))
     IN \/ child.kind = "empty"
        \/ child.kind = "accountLeaf" /\ child.key # key
        \/ CreatePathClear(child, key)

\* C31: CreateAccount never destroys an account: every account stored
\* before a CreateAccount call is stored after it with its fields unchanged,
\* a call that returns an error leaves the tree unchanged, and a call for a
\* key that shares its leading bytes with the key of another account
\* succeeds.
C31_CreateAccountKeepsAccounts ==
  [][(ret'.op = "CreateAccount" /\ mode = "stateful")
     => /\ AccountsOf(root) \subseteq AccountsOf(root')
        /\ ret'.err # "ok" => root' = root
        /\ CreatePathClear(root, ret'.key) => ret'.err = "ok"]_vars

\* what tells one node of a tree from another: a leafNode is its key and
\* value, an InternalNode its depth and the hashes of its children
ShapeOf(n) ==
  IF n.kind = "leafNode" THEN [key |-> n.key, value |-> n.value]
  ELSE [depth |-> n.depth,
        kids |-> [i \in DOMAIN n.children |-> TreeHash(n.children[i]).hash]]

RECURSIVE NodesOf(_)
\* the leafNodes and InternalNodes of a stateful tree, n included
NodesOf(n) ==
  CASE n.kind = "leafNode" -> {ShapeOf(n)}
    [] n.kind = "InternalNode" ->
         {ShapeOf(n)} \cup UNION {NodesOf(n.children[i]) : i \in DOMAIN n.children}
    [] OTHER -> {}

\* the leafNodes and InternalNodes still held below n as they are
LiveNodes(n) ==
  IF n.kind # "InternalNode" THEN {}
  ELSE UNION {NodesOf(n.children[i]) : i \in DOMAIN n.children}

RECURSIVE HashedIn(_)
\* the hashes of the hashedNodes held in n and below
HashedIn(n) ==
  IF n.kind # "InternalNode" THEN {}
  ELSE {n.children[i].hash : i \in {j \in DOMAIN n.children : n.children[j].kind = "hashedNode"}}
       \cup UNION {HashedIn(n.children[i]) : i \in DOMAIN n.children}

\* the nodes sent on the channel so far
SentNodes == {ShapeOf(ret.sent[i].node) : i \in DOMAIN ret.sent}

\* C32: with a flush channel, over a sequence of InsertOrdered calls with
\* ascending keys followed by one Flush of the root, every leafNode and
\* every InternalNode of the tree is sent exactly once, and a node that was
\* sent is held in its parent only as a hashedNode with the same hash.
C32_EveryNodeSentOnce ==
  /\ ret.err = "ok"
  /\ Cardinality(SentNodes) = Len(ret.sent)
  /\ LiveNodes(root) \cap SentNodes = {}
  /\ \A i \in DOMAIN ret.sent :
       \/ ret.op = "Flush" /\ i = Len(ret.sent)
       \/ ret.sent[i].hash \in HashedIn(root)
       \/ \E j \in DOMAIN ret.sent : ret.sent[i].hash \in HashedIn(ret.sent[j].node)
  /\ ret.op = "Flush" => SentNodes = NodesOf(base)

\* four pairs were inserted and the root flushed: leaves and an internal
\* node were sent by InsertOrdered, the rest by Flush
C32_Witness ==
  /\ ret.op = "Flush" /\ ret.err = "ok" /\ steps = 5
  /\ Len(ret.sent) >= 7
  /\ \E i \in DOMAIN ret.sent : i < Len(ret.sent) /\ ret.sent[i].node.kind = "InternalNode"

\* bit j of the key, counted from the most significant bit of the first
\* byte; a bit past the end of the key is zero
KeyBit(key, j) ==
  IF j \div 8 >= Len(key) THEN 0
  ELSE (key[(j \div 8) + 1] \div TwoTo(7 - (j % 8))) % 2

RECURSIVE BitsFrom(_, _, _)
\* the integer formed by the n bits of the key that start at bit j
BitsFrom(key, j, n) ==
  IF n = 0 THEN 0 ELSE KeyBit(key, j) * TwoTo(n - 1) + BitsFrom(key, j + 1, n - 1)

\* C33: for the width 10, offset2Key(key, offset, 10) returns, for a 32-byte
\* key and an offset that is a multiple of 10 in 0..250, the integer formed
\* by the 10 key bits starting at bit offset, most significant bit first,
\* the bits past the end of the key read as zero; the result is below 1024.
C33_TenBitsOfTheKey ==
  ret.op = "offset2Key"
    => /\ ret.err = "ok"
       /\ ret.word = BitsFrom(ret.key, ret.start, 10)
       /\ ret.word < 1024

\* the last word of a key whose last byte has bits set among its low six
C33_Witness ==
  /\ ret.op = "offset2Key" /\ ret.err = "ok" /\ ret.start = 250
  /\ ret.key[32] = 165 /\ ret.word = 592

====
